---- MODULE Spec2Model ----
(***************************************************************************)
(* State-machine model of VideoCallService (src/unnamed/part_003), the     *)
(* mediasoup/protoo client session: connectWithRetry/connect, the          *)
(* notification handlers, the producer controls and the published          *)
(* snapshots (stateSubject, participantsSubject).                          *)
(*                                                                         *)
(* JavaScript runs every handler to its next await without interleaving,   *)
(* so one action is one synchronous stretch of a handler: from its call    *)
(* (or from the settling of the promise it awaits) to its next await or    *)
(* its end, catch blocks included.                                         *)
(***************************************************************************)
EXTENDS Integers, Sequences, FiniteSets, TLC

\* ------------------------------------------------------------------ values

\* undefined / null of the source
Null == "<null>"

Kinds == {"audio", "video"}

\* Peer ids the server uses in notifications.  "alice" is the id the join
\* response confirmed for this client.
PeerIds == {"alice", "bob"}

\* Consumer ids of newConsumer / consumerClosed / consumerPaused notifications.
ConsumerIds == {"c1", "c2"}

\* The empty consumer map.
EmptyMap == [c \in {} |-> Null]

\* Longest participant list newPeer is let to build.
MaxParticipants == 3

\* ------------------------------------------------------------------ state

VARIABLES
  participantsSubject,   \* participantsSubject.value: sequence of Participant
  stateSubject,          \* stateSubject.value: MediaSoupState
  localStreamSubject,    \* localStreamSubject.value: Null or "stream"
  consumers,             \* this.consumers: consumer id -> consumer object
  closedConsumers,       \* ids of the consumer objects close() was called on
  pendingConsume,        \* handleNewConsumer calls suspended at an await
                         \* (closedMeanwhile: a consumerClosed came since)
  videoProducer,         \* this.videoProducer
  audioProducer,         \* this.audioProducer
  pendingClose,          \* closeProducer calls awaiting the request's answer
  producing,             \* the startProducing call in progress
  sendTransport,         \* this.sendTransport exists
  recvTransport,         \* this.recvTransport exists
  currentPeerId,         \* this.currentPeerId
  localPeerDisplayName,  \* this.localPeerDisplayName
  joinConfirmed,         \* currentPeerId is the peerId of a join response
  peer,                  \* this.peer: "none" | "connecting" | "open" | "closed"
  connectionRetries,     \* this.connectionRetries
  retry,                 \* the connectWithRetry call in progress
  calls,                 \* the last pauseProducer / resumeProducer calls
  loadedDevice,          \* this.device: "none" | "new" | "loaded"
  creating,              \* the createTransports call in progress
  closedTransports,      \* the transports ("send", "recv") close() was called on
  teardown,              \* the steps the last disconnect() ran, in order
  joining,               \* the component's joining flag
  joinRoomPc,            \* the await the component's joinRoom() is suspended at
  last                   \* the handler that ran last and what it sent

remoteVars == <<participantsSubject, consumers, closedConsumers, pendingConsume>>
mediaVars  == <<videoProducer, audioProducer, pendingClose, producing, calls,
                localStreamSubject, sendTransport>>
connVars   == <<currentPeerId, localPeerDisplayName, joinConfirmed, peer,
                connectionRetries, retry, recvTransport>>
teardownVars == <<loadedDevice, creating, closedTransports, teardown>>
componentVars == <<joining, joinRoomPc>>
vars == <<participantsSubject, stateSubject, localStreamSubject, consumers,
          closedConsumers, pendingConsume, videoProducer, audioProducer,
          pendingClose, producing, sendTransport, recvTransport, currentPeerId,
          localPeerDisplayName, joinConfirmed, peer, connectionRetries,
          retry, calls, loadedDevice, creating, closedTransports, teardown,
          joining, joinRoomPc, last>>

\* ------------------------------------------------------------------ records

NoProducer == [present |-> FALSE, paused |-> FALSE, closed |-> FALSE]

NewProducer == [present |-> TRUE, paused |-> FALSE, closed |-> FALSE]

NoSpeaker == <<>>

InitialState ==
  [isConnected |-> FALSE, isProducing |-> FALSE, participants |-> <<>>,
   error |-> Null, activeSpeaker |-> NoSpeaker]

NoTask ==
  [pc |-> "none", peerId |-> Null, kind |-> "audio", sent |-> 0,
   closedMeanwhile |-> FALSE]

NotProducing == [pc |-> "idle", enableVideo |-> FALSE, enableAudio |-> FALSE]

NotCreating == [pc |-> "idle"]

NoRetry == [pc |-> "idle", attempt |-> 0, attempts |-> 0, delays |-> <<>>,
            thrown |-> <<>>, lastMsg |-> Null, displayName |-> Null]

Event(op, id, peerId, kind, sent, threw) ==
  [op |-> op, id |-> id, peerId |-> peerId, kind |-> kind, sent |-> sent,
   threw |-> threw]

NoEvent == Event("init", Null, Null, Null, <<>>, FALSE)

Request(method, id) == <<method, id>>

\* ------------------------------------------------------------------ helpers

isProducerEnabled(producer) == producer.present /\ ~producer.paused

isVideoEnabled == isProducerEnabled(videoProducer)

isAudioEnabled == isProducerEnabled(audioProducer)

getConsumers == consumers

updateState(state, updates) ==
  [f \in DOMAIN state |-> IF f \in DOMAIN updates THEN updates[f] ELSE state[f]]

findIndex(list, id) ==
  IF \E i \in 1..Len(list) : list[i].id = id
  THEN CHOOSE i \in 1..Len(list) :
         list[i].id = id /\ \A j \in 1..(i - 1) : list[j].id # id
  ELSE -1

\* addParticipant without the findIndex test.
addParticipantNoCheck(list, participant) ==
  Append(list, participant)

addParticipant(list, participant) ==
  IF findIndex(list, participant.id) = -1
  THEN Append(list, participant)
  ELSE list

\* removeParticipant with the filter's test inverted.
removeParticipantInverted(list, peerId) ==
  SelectSeq(list, LAMBDA p : p.id = peerId)

removeParticipant(list, peerId) ==
  SelectSeq(list, LAMBDA p : p.id # peerId)

\* updateParticipantMedia writing the flag of the other kind.
updateParticipantMediaSwapped(list, peerId, kind, enabled) ==
  [i \in 1..Len(list) |->
     IF list[i].id = peerId
     THEN IF kind = "audio"
          THEN [list[i] EXCEPT !.videoEnabled = enabled]
          ELSE [list[i] EXCEPT !.audioEnabled = enabled]
     ELSE list[i]]

updateParticipantMedia(list, peerId, kind, enabled) ==
  [i \in 1..Len(list) |->
     IF list[i].id = peerId
     THEN IF kind = "audio"
          THEN [list[i] EXCEPT !.audioEnabled = enabled]
          ELSE [list[i] EXCEPT !.videoEnabled = enabled]
     ELSE list[i]]

LocalParticipant(audio, video) ==
  [id |-> "local", displayName |-> "You", device |-> "Local", isLocal |-> TRUE,
   audioEnabled |-> audio, videoEnabled |-> video]

\* updateParticipants without its else branch: no local participant is added.
updateParticipantsNoAdd(list, audio, video) ==
  [i \in 1..Len(list) |->
     IF list[i].isLocal
     THEN [list[i] EXCEPT !.audioEnabled = isProducerEnabled(audio),
                          !.videoEnabled = isProducerEnabled(video)]
     ELSE list[i]]

\* The participant list updateParticipants leaves in participantsSubject;
\* the caller publishes it into stateSubject as well.
updateParticipants(list, audio, video) ==
  IF \E i \in 1..Len(list) : list[i].isLocal
  THEN LET k == CHOOSE i \in 1..Len(list) :
                  list[i].isLocal /\ \A j \in 1..(i - 1) : ~list[j].isLocal
       IN [list EXCEPT ![k].audioEnabled = isProducerEnabled(audio),
                       ![k].videoEnabled = isProducerEnabled(video)]
  ELSE addParticipant(list, LocalParticipant(isProducerEnabled(audio),
                                             isProducerEnabled(video)))

\* ------------------------------------------------- notifications (dispatch)

\* Variables the notification handlers never touch.
NotifFrame ==
  UNCHANGED <<mediaVars, connVars, teardownVars, componentVars>>

handleNewPeer(id, displayName, device) ==
  /\ \/ Len(participantsSubject) < MaxParticipants
     \/ findIndex(participantsSubject, id) # -1
  /\ participantsSubject' =
       addParticipant(participantsSubject,
                      [id |-> id, displayName |-> displayName,
                       device |-> device, isLocal |-> FALSE,
                       audioEnabled |-> FALSE, videoEnabled |-> FALSE])
  /\ last' = Event("newPeer", id, Null, Null, <<>>, FALSE)
  /\ UNCHANGED <<stateSubject, consumers, closedConsumers, pendingConsume>>
  /\ NotifFrame

\* handlePeerClosed that also drops the consumers tagged with the peer.
handlePeerClosedDropsConsumers(peerId) ==
  /\ participantsSubject' = removeParticipant(participantsSubject, peerId)
  /\ consumers' =
       [c \in {d \in DOMAIN consumers : consumers[d].peerId # peerId} |->
          consumers[c]]
  /\ last' = Event("peerClosed", peerId, Null, Null, <<>>, FALSE)
  /\ UNCHANGED <<stateSubject, closedConsumers, pendingConsume>>
  /\ NotifFrame

handlePeerClosed(peerId) ==
  /\ participantsSubject' = removeParticipant(participantsSubject, peerId)
  /\ last' = Event("peerClosed", peerId, Null, Null, <<>>, FALSE)
  /\ UNCHANGED <<stateSubject, consumers, closedConsumers, pendingConsume>>
  /\ NotifFrame

\* handleNewConsumer up to its first await: consume() throws at once when
\* there is no receive transport (caught and logged by handleNewConsumer),
\* and otherwise suspends in recvTransport.consume().
handleNewConsumer(id, peerId, kind) ==
  /\ pendingConsume[id].pc = "none"
  /\ IF recvTransport
     THEN /\ pendingConsume' =
               [pendingConsume EXCEPT
                  ![id] = [pc |-> "consume", peerId |-> peerId, kind |-> kind,
                           sent |-> 0, closedMeanwhile |-> FALSE]]
          /\ last' = Event("newConsumer", id, peerId, kind, <<>>, FALSE)
     ELSE /\ pendingConsume' = pendingConsume
          /\ last' = Event("newConsumerFailed", id, peerId, kind, <<>>, FALSE)
  /\ UNCHANGED <<participantsSubject, stateSubject, consumers, closedConsumers>>
  /\ NotifFrame

\* consume() putting the consumer into the map whether or not
\* recvTransport.consume() resolved.
consumeSettledKeepsEntry(id, ok) ==
  /\ pendingConsume[id].pc = "consume"
  /\ consumers' =
       [c \in DOMAIN consumers \cup {id} |->
          IF c = id
          THEN [peerId |-> Null, kind |-> pendingConsume[id].kind,
                paused |-> FALSE]
          ELSE consumers[c]]
  /\ closedConsumers' = closedConsumers \ {id}
  /\ IF ok
     THEN /\ pendingConsume' =
               [pendingConsume EXCEPT ![id].pc = "resume", ![id].sent = @ + 1]
          /\ last' = Event("consume", id, pendingConsume[id].peerId,
                           pendingConsume[id].kind,
                           <<Request("resumeConsumer", id)>>, FALSE)
     ELSE /\ pendingConsume' = [pendingConsume EXCEPT ![id] = NoTask]
          /\ last' = Event("newConsumerFailed", id, pendingConsume[id].peerId,
                           pendingConsume[id].kind, <<>>, FALSE)
  /\ UNCHANGED <<participantsSubject, stateSubject>>
  /\ NotifFrame

\* recvTransport.consume() settles: on success the consumer is put into the
\* map and resumeConsumer is requested; on failure consume() rethrows and
\* handleNewConsumer logs.
consumeSettled(id, ok) ==
  /\ pendingConsume[id].pc = "consume"
  /\ IF ok
     THEN /\ consumers' =
               [c \in DOMAIN consumers \cup {id} |->
                  IF c = id
                  THEN [peerId |-> Null, kind |-> pendingConsume[id].kind,
                        paused |-> FALSE]
                  ELSE consumers[c]]
          /\ closedConsumers' = closedConsumers \ {id}
          /\ pendingConsume' =
               [pendingConsume EXCEPT ![id].pc = "resume", ![id].sent = @ + 1]
          /\ last' = Event("consume", id, pendingConsume[id].peerId,
                           pendingConsume[id].kind,
                           <<Request("resumeConsumer", id)>>, FALSE)
     ELSE /\ pendingConsume' = [pendingConsume EXCEPT ![id] = NoTask]
          /\ last' = Event("newConsumerFailed", id, pendingConsume[id].peerId,
                           pendingConsume[id].kind, <<>>, FALSE)
          /\ UNCHANGED <<consumers, closedConsumers>>
  /\ UNCHANGED <<participantsSubject, stateSubject>>
  /\ NotifFrame

\* The resumeConsumer request settles.  Accepted: the consumer object is
\* tagged with its peer and kind, then handleNewConsumer marks the peer's
\* medium enabled and republishes the participants.  Rejected: consume()
\* rethrows, handleNewConsumer logs; the map keeps what consume() put there.
resumeSettled(id, ok) ==
  /\ pendingConsume[id].pc = "resume"
  /\ pendingConsume' = [pendingConsume EXCEPT ![id] = NoTask]
  /\ IF ok
     THEN LET task == pendingConsume[id]
              marked == updateParticipantMedia(participantsSubject,
                                               task.peerId, task.kind, TRUE)
              list == updateParticipants(marked, audioProducer, videoProducer)
          IN /\ consumers' =
                  [c \in DOMAIN consumers |->
                     IF c = id
                     THEN [consumers[c] EXCEPT !.peerId = task.peerId,
                                               !.kind = task.kind]
                     ELSE consumers[c]]
             /\ participantsSubject' = list
             /\ stateSubject' =
                  updateState(stateSubject, [participants |-> list])
             /\ last' = Event("newConsumerDone", id, task.peerId, task.kind,
                              [i \in 1..task.sent |->
                                 Request("resumeConsumer", id)], FALSE)
     ELSE /\ last' = Event("newConsumerFailed", id, pendingConsume[id].peerId,
                           pendingConsume[id].kind, <<>>, FALSE)
          /\ UNCHANGED <<consumers, participantsSubject, stateSubject>>
  /\ UNCHANGED closedConsumers
  /\ NotifFrame

\* A consumerClosed that arrives while the newConsumer of the same id is
\* still being handled is remembered with that handling (for the
\* properties; the handlers do not look at it).
noteClosed(pending, consumerId) ==
  IF pending[consumerId].pc = "none"
  THEN pending
  ELSE [pending EXCEPT ![consumerId].closedMeanwhile = TRUE]

\* handleConsumerClosed calling updateParticipants outside its if.
handleConsumerClosedAlwaysUpdates(consumerId) ==
  LET list == updateParticipants(participantsSubject, audioProducer,
                                 videoProducer)
  IN /\ IF consumerId \in DOMAIN consumers
        THEN /\ closedConsumers' = closedConsumers \cup {consumerId}
             /\ consumers' =
                  [c \in DOMAIN consumers \ {consumerId} |-> consumers[c]]
        ELSE UNCHANGED <<closedConsumers, consumers>>
     /\ participantsSubject' = list
     /\ stateSubject' = updateState(stateSubject, [participants |-> list])
     /\ last' = Event("consumerClosed", consumerId, Null, Null, <<>>, FALSE)
     /\ pendingConsume' = noteClosed(pendingConsume, consumerId)
     /\ NotifFrame

handleConsumerClosed(consumerId) ==
  /\ IF consumerId \in DOMAIN consumers
     THEN LET list == updateParticipants(participantsSubject, audioProducer,
                                         videoProducer)
          IN /\ closedConsumers' = closedConsumers \cup {consumerId}
             /\ consumers' =
                  [c \in DOMAIN consumers \ {consumerId} |-> consumers[c]]
             /\ participantsSubject' = list
             /\ stateSubject' =
                  updateState(stateSubject, [participants |-> list])
     ELSE UNCHANGED <<closedConsumers, consumers, participantsSubject,
                      stateSubject>>
  /\ last' = Event("consumerClosed", consumerId, Null, Null, <<>>, FALSE)
  /\ pendingConsume' = noteClosed(pendingConsume, consumerId)
  /\ NotifFrame

\* handleConsumerPaused treating the notification as a consumerClosed.
handleConsumerPausedDropsConsumer(consumerId) ==
  /\ consumers' =
       [c \in DOMAIN consumers \ {consumerId} |-> consumers[c]]
  /\ last' = Event("consumerPaused", consumerId, Null, Null, <<>>, FALSE)
  /\ UNCHANGED <<participantsSubject, stateSubject, closedConsumers,
                 pendingConsume>>
  /\ NotifFrame

handleConsumerPaused(consumerId) ==
  /\ consumers' =
       [c \in DOMAIN consumers |->
          IF c = consumerId THEN [consumers[c] EXCEPT !.paused = TRUE]
          ELSE consumers[c]]
  /\ last' = Event("consumerPaused", consumerId, Null, Null, <<>>, FALSE)
  /\ UNCHANGED <<participantsSubject, stateSubject, closedConsumers,
                 pendingConsume>>
  /\ NotifFrame

handleConsumerResumed(consumerId) ==
  /\ consumers' =
       [c \in DOMAIN consumers |->
          IF c = consumerId THEN [consumers[c] EXCEPT !.paused = FALSE]
          ELSE consumers[c]]
  /\ last' = Event("consumerResumed", consumerId, Null, Null, <<>>, FALSE)
  /\ UNCHANGED <<participantsSubject, stateSubject, closedConsumers,
                 pendingConsume>>
  /\ NotifFrame

\* handleActiveSpeaker keeping the earlier speakers as well.
handleActiveSpeakerAccumulates(peerId, volume) ==
  /\ stateSubject' =
       updateState(stateSubject,
                   [activeSpeaker |->
                      Append(stateSubject.activeSpeaker,
                             [peerId |-> peerId, volume |-> volume])])
  /\ last' = Event("activeSpeaker", peerId, Null, Null, <<>>, FALSE)
  /\ UNCHANGED remoteVars
  /\ NotifFrame

handleActiveSpeaker(peerId, volume) ==
  /\ stateSubject' =
       updateState(stateSubject,
                   [activeSpeaker |-> <<[peerId |-> peerId,
                                         volume |-> volume]>>])
  /\ last' = Event("activeSpeaker", peerId, Null, Null, <<>>, FALSE)
  /\ UNCHANGED remoteVars
  /\ NotifFrame

\* A default branch that publishes an error for the unknown method.
unknownNotificationPublishesError ==
  /\ stateSubject' = updateState(stateSubject, [error |-> "unknown method"])
  /\ last' = Event("unknown", Null, Null, Null, <<>>, FALSE)
  /\ UNCHANGED remoteVars
  /\ NotifFrame

\* The default branch of the dispatch: the method is logged and ignored.
unknownNotification ==
  /\ last' = Event("unknown", Null, Null, Null, <<>>, FALSE)
  /\ UNCHANGED <<stateSubject, remoteVars>>
  /\ NotifFrame

\* consume() has registered its 'trackended' and 'transportclose' handlers
\* on the consumer in the map under id: it does so in the step that tags the
\* consumer with its peer, once the resumeConsumer request has resolved.
hasTrackEndedHandler(id) ==
  id \in DOMAIN consumers /\ consumers[id].peerId # Null

\* A 'trackended' handler that also clears the owner's media flag.
consumerTrackEndedClearsFlag(id) ==
  /\ id \in DOMAIN consumers
  /\ IF hasTrackEndedHandler(id)
     THEN LET cleared == updateParticipantMedia(participantsSubject,
                                                consumers[id].peerId,
                                                consumers[id].kind, FALSE)
              list == updateParticipants(cleared, audioProducer,
                                         videoProducer)
          IN /\ consumers' = [c \in DOMAIN consumers \ {id} |-> consumers[c]]
             /\ participantsSubject' = list
             /\ stateSubject' =
                  updateState(stateSubject, [participants |-> list])
     ELSE UNCHANGED <<consumers, participantsSubject, stateSubject>>
  /\ last' = Event("consumerTrackEnded", id, consumers[id].peerId,
                   consumers[id].kind, <<>>, FALSE)
  /\ UNCHANGED <<closedConsumers, pendingConsume>>
  /\ NotifFrame

\* The track of the consumer in the map under id ends.  With the handler of
\* consume() registered, the consumer is taken out of the map and the
\* participants are republished; before that nothing listens.
consumerTrackEnded(id) ==
  /\ id \in DOMAIN consumers
  /\ IF hasTrackEndedHandler(id)
     THEN LET list == updateParticipants(participantsSubject, audioProducer,
                                         videoProducer)
          IN /\ consumers' = [c \in DOMAIN consumers \ {id} |-> consumers[c]]
             /\ participantsSubject' = list
             /\ stateSubject' =
                  updateState(stateSubject, [participants |-> list])
     ELSE UNCHANGED <<consumers, participantsSubject, stateSubject>>
  /\ last' = Event("consumerTrackEnded", id, consumers[id].peerId,
                   consumers[id].kind, <<>>, FALSE)
  /\ UNCHANGED <<closedConsumers, pendingConsume>>
  /\ NotifFrame

\* ------------------------------------------------ remote session state

\* The session after connect() and createTransports() have succeeded: the
\* join response confirmed "alice" as the local peer id.
InitJoined ==
  /\ participantsSubject = <<>>
  /\ stateSubject = [InitialState EXCEPT !.isConnected = TRUE]
  /\ localStreamSubject = Null
  /\ consumers = EmptyMap
  /\ closedConsumers = {}
  /\ pendingConsume = [c \in ConsumerIds |-> NoTask]
  /\ videoProducer = NoProducer
  /\ audioProducer = NoProducer
  /\ pendingClose = [k \in Kinds |-> 0]
  /\ producing = NotProducing
  /\ sendTransport = TRUE
  /\ recvTransport = TRUE
  /\ currentPeerId = "alice"
  /\ localPeerDisplayName = "Alice"
  /\ joinConfirmed = TRUE
  /\ peer = "open"
  /\ connectionRetries = 0
  /\ retry = NoRetry
  /\ calls = <<>>
  /\ loadedDevice = "loaded"
  /\ creating = NotCreating
  /\ closedTransports = {}
  /\ teardown = <<>>
  /\ joining = FALSE
  /\ joinRoomPc = "idle"
  /\ last = NoEvent

\* The notifications the server is taken to send: a consumer of the
\* client's own producer ("alice"), and two consumers of bob's producers.
NewPeerInputs == {<<"bob", "Bob">>}

NewConsumerInputs ==
  {<<"c1", "alice", "audio">>, <<"c1", "bob", "video">>,
   <<"c2", "bob", "audio">>}

Init == InitJoined

Next ==
  \/ \E in \in NewPeerInputs : handleNewPeer(in[1], in[2], "Chrome Browser")
  \/ \E id \in PeerIds : handlePeerClosed(id)
  \/ \E in \in NewConsumerInputs : handleNewConsumer(in[1], in[2], in[3])
  \/ \E c \in ConsumerIds, ok \in BOOLEAN : consumeSettled(c, ok)
  \/ \E c \in ConsumerIds, ok \in BOOLEAN : resumeSettled(c, ok)
  \/ \E c \in ConsumerIds : handleConsumerClosed(c)
  \/ \E c \in ConsumerIds : consumerTrackEnded(c)
  \/ unknownNotification

Spec == Init /\ [][Next]_vars

\* --------------------------------------------------- participants (peers)

\* The same handlers under notifications that vary the peers: two display
\* names per peer, one consumer.
PeersNewPeerInputs ==
  {<<"alice", "Alice">>, <<"bob", "Bob">>, <<"bob", "Rob">>}

PeersNewConsumerInputs == {<<"c1", "bob", "video">>}

NextPeers ==
  \/ \E in \in PeersNewPeerInputs : handleNewPeer(in[1], in[2], "Chrome Browser")
  \/ \E id \in PeerIds : handlePeerClosed(id)
  \/ \E in \in PeersNewConsumerInputs : handleNewConsumer(in[1], in[2], in[3])
  \/ \E ok \in BOOLEAN : consumeSettled("c1", ok)
  \/ \E ok \in BOOLEAN : resumeSettled("c1", ok)
  \/ handleConsumerClosed("c1")
  \/ handleConsumerPaused("c1")
  \/ handleConsumerResumed("c1")
  \/ \E p \in PeerIds : handleActiveSpeaker(p, -50)
  \/ unknownNotification

SpecPeers == Init /\ [][NextPeers]_vars

\* ------------------------------------------------------- local producers

\* Most closeProducer requests of one kind awaiting their answer at a time.
MaxPending == 1

\* The error startProducing publishes when it fails.
MediaError == "Không thể truy cập camera/microphone"

producerOf(kind) == IF kind = "video" THEN videoProducer ELSE audioProducer

setProducer(kind, producer) ==
  IF kind = "video"
  THEN videoProducer' = producer /\ UNCHANGED audioProducer
  ELSE audioProducer' = producer /\ UNCHANGED videoProducer

\* The record of the two most recent pauseProducer / resumeProducer calls.
Push(log, entry) ==
  IF log = <<>> THEN <<entry>> ELSE <<log[Len(log)], entry>>

\* Variables the producer controls never touch.
MediaFrame ==
  UNCHANGED <<remoteVars, connVars, teardownVars, componentVars>>

\* pauseProducer sending its request whatever the producer's paused flag.
pauseProducerNoPausedTest(kind) ==
  LET producer == producerOf(kind)
      acts == producer.present
      after == IF acts THEN [producer EXCEPT !.paused = TRUE] ELSE producer
      sent == IF acts THEN <<Request("pauseProducer", kind)>> ELSE <<>>
  IN /\ setProducer(kind, after)
     /\ calls' = Push(calls, [op |-> "pause", kind |-> kind,
                              before |-> producer, after |-> after,
                              sent |-> sent,
                              res |-> IF acts THEN "pending" ELSE "none"])
     /\ last' = Event("pauseProducer", kind, Null, kind, sent, FALSE)
     /\ UNCHANGED <<pendingClose, producing, localStreamSubject, sendTransport,
                    stateSubject>>
     /\ MediaFrame

\* pauseProducer up to its await: the producer, when there is one and it is
\* not paused, is paused and the pauseProducer request is sent.
pauseProducer(kind) ==
  LET producer == producerOf(kind)
      acts == producer.present /\ ~producer.paused
      after == IF acts THEN [producer EXCEPT !.paused = TRUE] ELSE producer
      sent == IF acts THEN <<Request("pauseProducer", kind)>> ELSE <<>>
  IN /\ setProducer(kind, after)
     /\ calls' = Push(calls, [op |-> "pause", kind |-> kind,
                              before |-> producer, after |-> after,
                              sent |-> sent,
                              res |-> IF acts THEN "pending" ELSE "none"])
     /\ last' = Event("pauseProducer", kind, Null, kind, sent, FALSE)
     /\ UNCHANGED <<pendingClose, producing, localStreamSubject, sendTransport,
                    stateSubject>>
     /\ MediaFrame

\* resumeProducer that sends its request and leaves the producer paused.
resumeProducerNoResume(kind) ==
  LET producer == producerOf(kind)
      acts == producer.present /\ producer.paused
      sent == IF acts THEN <<Request("resumeProducer", kind)>> ELSE <<>>
  IN /\ setProducer(kind, producer)
     /\ calls' = Push(calls, [op |-> "resume", kind |-> kind,
                              before |-> producer, after |-> producer,
                              sent |-> sent,
                              res |-> IF acts THEN "pending" ELSE "none"])
     /\ last' = Event("resumeProducer", kind, Null, kind, sent, FALSE)
     /\ UNCHANGED <<pendingClose, producing, localStreamSubject, sendTransport,
                    stateSubject>>
     /\ MediaFrame

\* resumeProducer up to its await.
resumeProducer(kind) ==
  LET producer == producerOf(kind)
      acts == producer.present /\ producer.paused
      after == IF acts THEN [producer EXCEPT !.paused = FALSE] ELSE producer
      sent == IF acts THEN <<Request("resumeProducer", kind)>> ELSE <<>>
  IN /\ setProducer(kind, after)
     /\ calls' = Push(calls, [op |-> "resume", kind |-> kind,
                              before |-> producer, after |-> after,
                              sent |-> sent,
                              res |-> IF acts THEN "pending" ELSE "none"])
     /\ last' = Event("resumeProducer", kind, Null, kind, sent, FALSE)
     /\ UNCHANGED <<pendingClose, producing, localStreamSubject, sendTransport,
                    stateSubject>>
     /\ MediaFrame

\* A catch that undoes the local toggle when the request is rejected.
toggleSettledRevertsOnReject(i, ok) ==
  /\ i \in 1..Len(calls)
  /\ calls[i].res = "pending"
  /\ calls' = [calls EXCEPT ![i].res = IF ok THEN "ok" ELSE "rejected"]
  /\ IF ok
     THEN UNCHANGED <<videoProducer, audioProducer>>
     ELSE setProducer(calls[i].kind,
                      [producerOf(calls[i].kind) EXCEPT
                         !.paused = calls[i].before.paused])
  /\ last' = Event("toggleSettled", calls[i].kind, Null, calls[i].kind, <<>>,
                   FALSE)
  /\ UNCHANGED <<pendingClose, producing, localStreamSubject, sendTransport,
                 stateSubject>>
  /\ MediaFrame

\* The pauseProducer / resumeProducer request of call i settles: accepted,
\* the call returns; rejected, its catch logs.  No state of the service
\* changes either way.
toggleSettled(i, ok) ==
  /\ i \in 1..Len(calls)
  /\ calls[i].res = "pending"
  /\ calls' = [calls EXCEPT ![i].res = IF ok THEN "ok" ELSE "rejected"]
  /\ last' = Event("toggleSettled", calls[i].kind, Null, calls[i].kind, <<>>,
                   FALSE)
  /\ UNCHANGED <<videoProducer, audioProducer, pendingClose, producing,
                 localStreamSubject, sendTransport, stateSubject>>
  /\ MediaFrame

\* closeProducer up to its await: the producer, when there is one, is closed
\* and the closeProducer request is sent; the reference is still held.
closeProducer(kind) ==
  LET producer == producerOf(kind)
  IN /\ producer.present => pendingClose[kind] < MaxPending
     /\ IF producer.present
        THEN /\ setProducer(kind, [producer EXCEPT !.closed = TRUE])
             /\ pendingClose' = [pendingClose EXCEPT ![kind] = @ + 1]
             /\ last' = Event("closeProducer", kind, Null, kind,
                              <<Request("closeProducer", kind)>>, FALSE)
        ELSE /\ UNCHANGED <<videoProducer, audioProducer, pendingClose>>
             /\ last' = Event("closeProducer", kind, Null, kind, <<>>, FALSE)
     /\ calls' = <<>>
     /\ UNCHANGED <<producing, localStreamSubject, sendTransport, stateSubject>>
     /\ MediaFrame

\* The closeProducer request settles: accepted, the reference of that kind
\* is cleared; rejected, the catch logs and the reference stays.
closeSettled(kind, ok) ==
  /\ pendingClose[kind] > 0
  /\ pendingClose' = [pendingClose EXCEPT ![kind] = @ - 1]
  /\ IF ok
     THEN setProducer(kind, NoProducer) /\ calls' = <<>>
     ELSE UNCHANGED <<videoProducer, audioProducer, calls>>
  /\ last' = Event("closeSettled", kind, Null, kind, <<>>, FALSE)
  /\ UNCHANGED <<producing, localStreamSubject, sendTransport, stateSubject>>
  /\ MediaFrame

\* startProducing failing: its catch publishes the error and rethrows.
producingFailed ==
  /\ producing' = NotProducing
  /\ stateSubject' = updateState(stateSubject, [error |-> MediaError])
  /\ last' = Event("startProducingFailed", Null, Null, Null, <<>>, TRUE)
  /\ UNCHANGED participantsSubject

\* The end of startProducing: isProducing is published, then
\* updateParticipants derives the local participant from the producers
\* (audio and video are the producers as this step leaves them).
producingDone(audio, video) ==
  LET list == updateParticipants(participantsSubject, audio, video)
  IN /\ producing' = NotProducing
     /\ participantsSubject' = list
     /\ stateSubject' =
          updateState(stateSubject,
                      [isProducing |-> TRUE, participants |-> list])
     /\ last' = Event("startProducingDone", Null, Null, Null, <<>>, FALSE)

\* startProducing up to its first await (getUserMedia); it throws at once
\* when there is no send transport.
startProducing(enableVideo, enableAudio) ==
  /\ producing.pc = "idle"
  /\ IF sendTransport
     THEN /\ producing' = [pc |-> "media", enableVideo |-> enableVideo,
                           enableAudio |-> enableAudio]
          /\ last' = Event("startProducing", Null, Null, Null, <<>>, FALSE)
          /\ UNCHANGED <<stateSubject, participantsSubject>>
     ELSE producingFailed
  /\ UNCHANGED <<videoProducer, audioProducer, pendingClose, calls,
                 localStreamSubject, sendTransport, consumers, closedConsumers,
                 pendingConsume>>
  /\ UNCHANGED <<connVars, teardownVars>>

\* getUserMedia settles.  The stream holds a track of each kind asked for.
userMediaSettled(ok) ==
  /\ producing.pc = "media"
  /\ IF ok
     THEN /\ localStreamSubject' = "stream"
          /\ IF producing.enableVideo
             THEN /\ producing' = [producing EXCEPT !.pc = "video"]
                  /\ last' = Event("userMedia", Null, Null, Null, <<>>, FALSE)
                  /\ UNCHANGED <<stateSubject, participantsSubject>>
             ELSE IF producing.enableAudio
             THEN /\ producing' = [producing EXCEPT !.pc = "audio"]
                  /\ last' = Event("userMedia", Null, Null, Null, <<>>, FALSE)
                  /\ UNCHANGED <<stateSubject, participantsSubject>>
             ELSE producingDone(audioProducer, videoProducer)
     ELSE producingFailed /\ UNCHANGED localStreamSubject
  /\ UNCHANGED <<videoProducer, audioProducer, pendingClose, calls,
                 sendTransport, consumers, closedConsumers, pendingConsume>>
  /\ UNCHANGED <<connVars, teardownVars, componentVars>>

\* sendTransport.produce() for the kind in progress settles.
produceSettled(ok) ==
  /\ producing.pc \in Kinds
  /\ IF ~ok
     THEN producingFailed /\ UNCHANGED <<videoProducer, audioProducer, calls>>
     ELSE IF producing.pc = "video"
     THEN /\ videoProducer' = NewProducer
          /\ UNCHANGED audioProducer
          /\ calls' = <<>>
          /\ IF producing.enableAudio
             THEN /\ producing' = [producing EXCEPT !.pc = "audio"]
                  /\ last' = Event("produce", "video", Null, "video",
                                   <<Request("produce", "video")>>, FALSE)
                  /\ UNCHANGED <<stateSubject, participantsSubject>>
             ELSE producingDone(audioProducer, NewProducer)
     ELSE /\ audioProducer' = NewProducer
          /\ UNCHANGED videoProducer
          /\ calls' = <<>>
          /\ producingDone(NewProducer, videoProducer)
  /\ UNCHANGED <<pendingClose, localStreamSubject, sendTransport, consumers,
                 closedConsumers, pendingConsume>>
  /\ UNCHANGED <<connVars, teardownVars, componentVars>>

\* The session once startProducing(enableVideo, enableAudio) has returned:
\* a producer of each kind asked for, the stream and isProducing published,
\* the local participant derived from the producers.
Produced(enableVideo, enableAudio) ==
  LET video == IF enableVideo THEN NewProducer ELSE NoProducer
      audio == IF enableAudio THEN NewProducer ELSE NoProducer
      list == updateParticipants(<<>>, audio, video)
  IN /\ participantsSubject = list
     /\ stateSubject = [InitialState EXCEPT !.isConnected = TRUE,
                                            !.isProducing = TRUE,
                                            !.participants = list]
     /\ localStreamSubject = "stream"
     /\ videoProducer = video
     /\ audioProducer = audio

\* The producer controls are exercised from the joined session, before
\* startProducing or after it has returned.
InitProd ==
  /\ \/ /\ participantsSubject = <<>>
        /\ stateSubject = [InitialState EXCEPT !.isConnected = TRUE]
        /\ localStreamSubject = Null
        /\ videoProducer = NoProducer
        /\ audioProducer = NoProducer
     \/ \E enableVideo, enableAudio \in BOOLEAN :
          Produced(enableVideo, enableAudio)
  /\ consumers = EmptyMap
  /\ closedConsumers = {}
  /\ pendingConsume = [c \in ConsumerIds |-> NoTask]
  /\ pendingClose = [k \in Kinds |-> 0]
  /\ producing = NotProducing
  /\ sendTransport = TRUE
  /\ recvTransport = TRUE
  /\ currentPeerId = "alice"
  /\ localPeerDisplayName = "Alice"
  /\ joinConfirmed = TRUE
  /\ peer = "open"
  /\ connectionRetries = 0
  /\ retry = NoRetry
  /\ calls = <<>>
  /\ loadedDevice = "loaded"
  /\ creating = NotCreating
  /\ closedTransports = {}
  /\ teardown = <<>>
  /\ joining = FALSE
  /\ joinRoomPc = "idle"
  /\ last = NoEvent

\* The 'trackended' event of a producer startProducing created (its track
\* stopped, e.g. the camera was unplugged): the handler logs.
producerTrackEnded(kind) ==
  /\ producerOf(kind).present
  /\ ~producerOf(kind).closed
  /\ last' = Event("trackended", kind, Null, kind, <<>>, FALSE)
  /\ UNCHANGED <<videoProducer, audioProducer, pendingClose, producing, calls,
                 localStreamSubject, sendTransport, stateSubject>>
  /\ MediaFrame

NextProd ==
  \/ \E k \in Kinds : producerTrackEnded(k)
  \/ \E k \in Kinds : pauseProducer(k)
  \/ \E k \in Kinds : resumeProducer(k)
  \/ \E i \in 1..2, ok \in BOOLEAN : toggleSettled(i, ok)
  \/ \E k \in Kinds : closeProducer(k)
  \/ \E k \in Kinds, ok \in BOOLEAN : closeSettled(k, ok)

SpecProd == InitProd /\ [][NextProd]_vars

\* ------------------------------------------- connect / connectWithRetry

maxRetries == 3

\* Display names the caller joins with, and what generateUniquePeerId keeps
\* of each (letters and digits only, at most 8 of them).
JoinNames == {"Alice", "A. Lice"}

sanitizedName(displayName) ==
  CASE displayName = "Alice" -> "Alice"
    [] displayName = "A. Lice" -> "ALice"
    [] OTHER -> displayName

\* Date.now() and Math.random() suffixes generateUniquePeerId may draw.
Stamps == {"t1_r1", "t2_r2"}

generateUniquePeerId(displayName, stamp) ==
  sanitizedName(displayName) \o "_" \o stamp

\* Peer ids a join response may carry (Null: the response has no peerId).
JoinResponsePeerIds == {Null, "alice"}

\* Messages of the errors the signaling peer and the device may raise.
PeerErrors == {"ws down"}

TimeoutMessage == "Connection timeout after 10 seconds"

peerFailedMessage(msg) == "Connection failed: " \o msg

deviceFailedMessage(msg) == "Device initialization failed: " \o msg

\* The aggregated error without the last failure's message.
finalErrorMessageNoCause(msg) ==
  "Connection failed after " \o ToString(maxRetries) \o " attempts"

finalErrorMessage(msg) ==
  "Connection failed after " \o ToString(maxRetries) \o " attempts: " \o msg

Min(a, b) == IF a < b THEN a ELSE b

RECURSIVE Pow(_, _)
Pow(base, exponent) ==
  IF exponent <= 0 THEN 1 ELSE base * Pow(base, exponent - 1)

\* A backoff that does not grow with the attempt.
backoffDelayFlat(attempt) == Min(1000, 5000)

backoffDelay(attempt) == Min(1000 * Pow(2, attempt - 1), 5000)

\* A retry loop that never gives up.
lastAttemptNever(attempt) == FALSE

\* The test `attempt === this.maxRetries` of connectWithRetry's catch.
lastAttempt(attempt) == attempt = maxRetries

\* Variables of the service connect never touches.
ConnServiceFrame ==
  UNCHANGED <<remoteVars, mediaVars, recvTransport, creating, closedTransports,
              teardown>>

\* Variables no step of a running connect touches.
ConnFrame == ConnServiceFrame /\ UNCHANGED componentVars

\* connect() up to its first await: a fresh peer id and a new signaling
\* peer, whose 'open' is awaited.
startConnect(call, displayName, stamp) ==
  /\ currentPeerId' = generateUniquePeerId(displayName, stamp)
  /\ localPeerDisplayName' = displayName
  /\ joinConfirmed' = FALSE
  /\ peer' = "connecting"
  /\ retry' = [call EXCEPT !.pc = "waitOpen", !.attempts = @ + 1,
                           !.displayName = displayName]

\* connect() throws msg: its catch publishes the message, connectWithRetry's
\* catch records the attempt and either gives up with the aggregated error
\* or starts the backoff delay.
attemptFailed(msg) ==
  /\ connectionRetries' = retry.attempt
  /\ IF lastAttempt(retry.attempt)
     THEN /\ stateSubject' =
               updateState(updateState(stateSubject, [error |-> msg]),
                           [error |-> finalErrorMessage(msg)])
          /\ retry' = [retry EXCEPT !.pc = "rejected", !.lastMsg = msg,
                                    !.thrown = Append(@, finalErrorMessage(msg))]
          /\ last' = Event("connectWithRetryRejected", Null, Null, Null, <<>>,
                           TRUE)
     ELSE /\ stateSubject' = updateState(stateSubject, [error |-> msg])
          /\ retry' = [retry EXCEPT !.pc = "delay", !.lastMsg = msg,
                                    !.delays =
                                      Append(@, backoffDelay(retry.attempt))]
          /\ last' = Event("attemptFailed", Null, Null, Null, <<>>, FALSE)

connectWithRetry(displayName, stamp) ==
  /\ retry.pc \in {"idle", "resolved", "rejected"}
  /\ startConnect([NoRetry EXCEPT !.attempt = 1], displayName, stamp)
  /\ last' = Event("connectWithRetry", Null, Null, Null, <<>>, FALSE)
  /\ UNCHANGED <<stateSubject, connectionRetries, loadedDevice>>
  /\ ConnServiceFrame

\* The peer's 'open' event: waitForConnection resolves and initializeDevice
\* makes a new Device and requests the router's capabilities.
peerOpened ==
  /\ retry.pc = "waitOpen"
  /\ peer' = "open"
  /\ loadedDevice' = "new"
  /\ retry' = [retry EXCEPT !.pc = "caps"]
  /\ last' = Event("open", Null, Null, Null,
                   <<Request("getRouterRtpCapabilities", Null)>>, FALSE)
  /\ UNCHANGED <<stateSubject, connectionRetries, currentPeerId,
                 localPeerDisplayName, joinConfirmed>>
  /\ ConnFrame

\* waitForConnection rejects on its 10 s timer.
waitTimedOut ==
  /\ retry.pc = "waitOpen"
  /\ attemptFailed(TimeoutMessage)
  /\ UNCHANGED <<peer, currentPeerId, localPeerDisplayName, joinConfirmed,
                 loadedDevice>>
  /\ ConnFrame

\* The peer's 'failed' event while its 'open' is awaited: the listener of
\* setupProtooListeners publishes the error, waitForConnection rejects.
peerFailed(msg) ==
  /\ retry.pc = "waitOpen"
  /\ attemptFailed(peerFailedMessage(msg))
  /\ peer' = "failed"
  /\ UNCHANGED <<currentPeerId, localPeerDisplayName, joinConfirmed, loadedDevice>>
  /\ ConnFrame

\* An 'open' listener of waitForConnection without the test of `resolved`:
\* the attempt goes on although its wait was already rejected.
peerOpenedLateResumesAttempt ==
  /\ retry.pc \in {"delay", "rejected"}
  /\ peer \in {"connecting", "failed", "disconnected"}
  /\ peer' = "open"
  /\ loadedDevice' = "new"
  /\ retry' = [retry EXCEPT !.pc = "caps"]
  /\ last' = Event("lateOpen", Null, Null, Null,
                   <<Request("getRouterRtpCapabilities", Null)>>, FALSE)
  /\ UNCHANGED <<stateSubject, connectionRetries, currentPeerId,
                 localPeerDisplayName, joinConfirmed>>
  /\ ConnFrame

\* The peer's 'open' event after waitForConnection was rejected by its timer
\* or by 'failed': `resolved` is set, so the listener of waitForConnection
\* does nothing, and the one of setupProtooListeners only logs.
peerOpenedLate ==
  /\ retry.pc \in {"delay", "rejected"}
  /\ peer \in {"connecting", "failed", "disconnected"}
  /\ peer' = "open"
  /\ last' = Event("lateOpen", Null, Null, Null, <<>>, FALSE)
  /\ UNCHANGED <<stateSubject, connectionRetries, retry, currentPeerId,
                 localPeerDisplayName, joinConfirmed, loadedDevice>>
  /\ ConnFrame

\* The peer's 'failed' event after the timer rejected waitForConnection:
\* only the listener of setupProtooListeners acts, publishing the error.
peerFailedLate(msg) ==
  /\ retry.pc \in {"delay", "rejected"}
  /\ peer = "connecting"
  /\ peer' = "failed"
  /\ stateSubject' = updateState(stateSubject, [error |-> peerFailedMessage(msg)])
  /\ last' = Event("lateFailed", Null, Null, Null, <<>>, FALSE)
  /\ UNCHANGED <<connectionRetries, retry, currentPeerId,
                 localPeerDisplayName, joinConfirmed, loadedDevice>>
  /\ ConnFrame

\* The peer's 'disconnected' event while its 'open' is awaited:
\* waitForConnection has no listener for it, the one of setupProtooListeners
\* publishes isConnected false.
peerDisconnectedWhileWaiting ==
  /\ retry.pc = "waitOpen"
  /\ peer' = "disconnected"
  /\ stateSubject' = updateState(stateSubject, [isConnected |-> FALSE])
  /\ last' = Event("disconnected", Null, Null, Null, <<>>, FALSE)
  /\ UNCHANGED <<connectionRetries, retry, currentPeerId,
                 localPeerDisplayName, joinConfirmed, loadedDevice>>
  /\ ConnFrame

\* getRouterRtpCapabilities settles; accepted, device.load() is awaited.
capabilitiesSettled(ok, msg) ==
  /\ retry.pc = "caps"
  /\ IF ok
     THEN /\ retry' = [retry EXCEPT !.pc = "load"]
          /\ last' = Event("capabilities", Null, Null, Null, <<>>, FALSE)
          /\ UNCHANGED <<stateSubject, connectionRetries>>
     ELSE attemptFailed(deviceFailedMessage(msg))
  /\ UNCHANGED <<peer, currentPeerId, localPeerDisplayName, joinConfirmed,
                 loadedDevice>>
  /\ ConnFrame

\* A connect that publishes isConnected as soon as the device is loaded.
deviceLoadSettledConnectsEarly(ok, msg) ==
  /\ retry.pc = "load"
  /\ IF ok
     THEN /\ retry' = [retry EXCEPT !.pc = "join"]
          /\ loadedDevice' = "loaded"
          /\ stateSubject' =
               updateState(stateSubject, [isConnected |-> TRUE])
          /\ last' = Event("deviceLoaded", Null, Null, Null,
                           <<Request("join", Null)>>, FALSE)
          /\ UNCHANGED connectionRetries
     ELSE attemptFailed(deviceFailedMessage(msg)) /\ UNCHANGED loadedDevice
  /\ UNCHANGED <<peer, currentPeerId, localPeerDisplayName, joinConfirmed>>
  /\ ConnFrame

\* device.load() settles; loaded, the join request is sent.
deviceLoadSettled(ok, msg) ==
  /\ retry.pc = "load"
  /\ IF ok
     THEN /\ retry' = [retry EXCEPT !.pc = "join"]
          /\ loadedDevice' = "loaded"
          /\ last' = Event("deviceLoaded", Null, Null, Null,
                           <<Request("join", Null)>>, FALSE)
          /\ UNCHANGED <<stateSubject, connectionRetries>>
     ELSE attemptFailed(deviceFailedMessage(msg)) /\ UNCHANGED loadedDevice
  /\ UNCHANGED <<peer, currentPeerId, localPeerDisplayName, joinConfirmed>>
  /\ ConnFrame

\* connect() keeping the generated peer id whatever the join response says.
joinSettledKeepsGenerated(ok, peerId, msg) ==
  /\ retry.pc = "join"
  /\ IF ok
     THEN /\ stateSubject' =
               updateState(stateSubject,
                           [isConnected |-> TRUE, error |-> Null])
          /\ connectionRetries' = 0
          /\ retry' = [retry EXCEPT !.pc = "resolved"]
          /\ last' = Event("connectWithRetryResolved", Null, peerId, Null,
                           <<>>, FALSE)
     ELSE attemptFailed(msg)
  /\ UNCHANGED <<peer, localPeerDisplayName, loadedDevice, currentPeerId,
                 joinConfirmed>>
  /\ ConnFrame

\* The join request settles.  Accepted: the peer id of the response, when it
\* carries one, replaces the generated one, isConnected is published and
\* connectWithRetry returns.
joinSettled(ok, peerId, msg) ==
  /\ retry.pc = "join"
  /\ IF ok
     THEN /\ IF peerId # Null
             THEN currentPeerId' = peerId /\ joinConfirmed' = TRUE
             ELSE UNCHANGED <<currentPeerId, joinConfirmed>>
          /\ stateSubject' =
               updateState(stateSubject,
                           [isConnected |-> TRUE, error |-> Null])
          /\ connectionRetries' = 0
          /\ retry' = [retry EXCEPT !.pc = "resolved"]
          /\ last' = Event("connectWithRetryResolved", Null, peerId, Null,
                           <<>>, FALSE)
     ELSE /\ attemptFailed(msg)
          /\ UNCHANGED <<currentPeerId, joinConfirmed>>
  /\ UNCHANGED <<peer, localPeerDisplayName, loadedDevice>>
  /\ ConnFrame

\* The backoff delay is over: the peer of the failed attempt is closed (its
\* 'close' listener publishes isConnected false) and the loop's next
\* iteration calls connect().
delayElapsed(stamp) ==
  /\ retry.pc = "delay"
  /\ startConnect([retry EXCEPT !.attempt = @ + 1], retry.displayName, stamp)
  /\ stateSubject' = updateState(stateSubject, [isConnected |-> FALSE])
  /\ last' = Event("retry", Null, Null, Null, <<>>, FALSE)
  /\ UNCHANGED <<connectionRetries, loadedDevice>>
  /\ ConnFrame

\* The service as constructed.
InitRetry ==
  /\ participantsSubject = <<>>
  /\ stateSubject = InitialState
  /\ localStreamSubject = Null
  /\ consumers = EmptyMap
  /\ closedConsumers = {}
  /\ pendingConsume = [c \in ConsumerIds |-> NoTask]
  /\ videoProducer = NoProducer
  /\ audioProducer = NoProducer
  /\ pendingClose = [k \in Kinds |-> 0]
  /\ producing = NotProducing
  /\ sendTransport = FALSE
  /\ recvTransport = FALSE
  /\ currentPeerId = Null
  /\ localPeerDisplayName = Null
  /\ joinConfirmed = FALSE
  /\ peer = "none"
  /\ connectionRetries = 0
  /\ retry = NoRetry
  /\ calls = <<>>
  /\ loadedDevice = "none"
  /\ creating = NotCreating
  /\ closedTransports = {}
  /\ teardown = <<>>
  /\ joining = FALSE
  /\ joinRoomPc = "idle"
  /\ last = NoEvent

NextRetry ==
  \/ \E n \in JoinNames, stamp \in Stamps :
       connectWithRetry(n, stamp) /\ UNCHANGED componentVars
  \/ peerOpened
  \/ waitTimedOut
  \/ \E msg \in PeerErrors : peerFailed(msg)
  \/ \E ok \in BOOLEAN, msg \in PeerErrors : capabilitiesSettled(ok, msg)
  \/ \E ok \in BOOLEAN, msg \in PeerErrors : deviceLoadSettled(ok, msg)
  \/ \E ok \in BOOLEAN, id \in JoinResponsePeerIds, msg \in PeerErrors :
       joinSettled(ok, id, msg)
  \/ \E stamp \in Stamps : delayElapsed(stamp)
  \/ peerOpenedLate
  \/ \E msg \in PeerErrors : peerFailedLate(msg)
  \/ peerDisconnectedWhileWaiting

SpecRetry == InitRetry /\ [][NextRetry]_vars

\* ------------------------------------------------ properties: participants

ParticipantIds(list) == {list[i].id : i \in 1..Len(list)}

EnabledFlag(participant, kind) ==
  IF kind = "audio" THEN participant.audioEnabled ELSE participant.videoEnabled

\* C2: the participant list never holds two entries with one id, and a
\* newPeer for an id already in the list leaves the list as it was (the
\* first entry keeps its display name and flags).
C2_OneEntryPerId ==
  /\ [](\A i, j \in 1..Len(participantsSubject) :
          participantsSubject[i].id = participantsSubject[j].id => i = j)
  /\ [][(last'.op = "newPeer" /\ last'.id \in ParticipantIds(participantsSubject))
          => participantsSubject' = participantsSubject]_vars

\* A newPeer(bob) was handled while bob's entry already carried an enabled
\* flag: the notification was a duplicate and the entry kept its flags.
C2_Witness ==
  /\ last.op = "newPeer"
  /\ \E i \in 1..Len(participantsSubject) :
       /\ participantsSubject[i].id = last.id
       /\ participantsSubject[i].videoEnabled

\* C3: peerClosed(p) leaves no entry with id p, keeps every other entry as
\* it was and in its place, and changes nothing when no entry has id p.
C3_PeerClosedRemovesOnlyThat ==
  [][last'.op = "peerClosed" =>
       LET p == last'.id
           kept == {i \in 1..Len(participantsSubject) :
                      participantsSubject[i].id # p}
       IN /\ p \notin ParticipantIds(participantsSubject')
          /\ Len(participantsSubject') = Cardinality(kept)
          /\ \A i \in kept :
               participantsSubject'[Cardinality({j \in kept : j <= i})]
                 = participantsSubject[i]
          /\ (p \notin ParticipantIds(participantsSubject)
                => participantsSubject' = participantsSubject)]_vars

\* peerClosed(p) ran, p is gone from the list although the last published
\* snapshot still shows it, and another participant is still listed.
C3_Witness ==
  /\ last.op = "peerClosed"
  /\ last.id \notin ParticipantIds(participantsSubject)
  /\ last.id \in ParticipantIds(stateSubject.participants)
  /\ Len(participantsSubject) >= 2

\* -------------------------------------------------- properties: consumers

\* C1: a newConsumer whose peerId is the local peer id confirmed by the join
\* response never puts a consumer into the consumer map.
C1_SelfConsumptionGuard ==
  (/\ joinConfirmed
   /\ last.op \in {"consume", "newConsumerDone"}
   /\ last.peerId = currentPeerId)
    => last.id \notin DOMAIN getConsumers

\* C9 as stated: after a successfully handled newConsumer{c, p, k} consumer
\* c is in the map tagged p and k, one resumeConsumer{c} was sent and
\* participant p has its k flag set.
C9_AsStated ==
  last.op = "newConsumerDone" =>
    /\ last.id \in DOMAIN consumers
    /\ consumers[last.id].peerId = last.peerId
    /\ consumers[last.id].kind = last.kind
    /\ last.sent = <<Request("resumeConsumer", last.id)>>
    /\ \E i \in 1..Len(participantsSubject) :
         /\ participantsSubject[i].id = last.peerId
         /\ EnabledFlag(participantsSubject[i], last.kind)

\* C9, amended: after a successfully handled newConsumer{c, p, k} exactly one
\* resumeConsumer{c} was sent; consumer c, if it is still in the map, is
\* tagged p and k; and every remote participant with id p in the list has
\* its k flag set.
C9_NewConsumerHandled ==
  last.op = "newConsumerDone" =>
    /\ last.sent = <<Request("resumeConsumer", last.id)>>
    /\ last.id \in DOMAIN consumers =>
         /\ consumers[last.id].peerId = last.peerId
         /\ consumers[last.id].kind = last.kind
    /\ \A i \in 1..Len(participantsSubject) :
         (participantsSubject[i].id = last.peerId
            /\ ~participantsSubject[i].isLocal)
           => EnabledFlag(participantsSubject[i], last.kind)

\* newConsumer{c2, bob, audio} was handled to its end: c2 is in the map,
\* tagged, and bob is listed with audio enabled.
C9_Witness ==
  /\ last.op = "newConsumerDone"
  /\ last.id \in DOMAIN consumers
  /\ consumers[last.id].peerId = "bob"
  /\ \E i \in 1..Len(participantsSubject) :
       /\ participantsSubject[i].id = "bob"
       /\ participantsSubject[i].audioEnabled
       /\ ~participantsSubject[i].videoEnabled

\* C10: consumerClosed for an id not in the map changes neither the map,
\* the participant list nor the published state and throws nothing; for an
\* id in the map it closes that consumer and removes that entry alone.
C10_ConsumerClosed ==
  [][last'.op = "consumerClosed" =>
       LET c == last'.id
       IN /\ ~last'.threw
          /\ IF c \notin DOMAIN consumers
             THEN UNCHANGED <<consumers, closedConsumers, participantsSubject,
                              stateSubject>>
             ELSE /\ closedConsumers' = closedConsumers \cup {c}
                  /\ DOMAIN consumers' = DOMAIN consumers \ {c}
                  /\ \A d \in DOMAIN consumers' :
                       consumers'[d] = consumers[d]]_vars

\* consumerClosed(c) ran on a consumer of the map: c is closed and gone,
\* the other consumer is still there.
C10_Witness ==
  /\ last.op = "consumerClosed"
  /\ last.id \in closedConsumers
  /\ last.id \notin DOMAIN consumers
  /\ DOMAIN consumers # {}

\* -------------------------------------------------- properties: producers

ToggleMethod(op) == IF op = "pause" THEN "pauseProducer" ELSE "resumeProducer"

\* The producer already is what the call would make it.
InTargetState(op, producer) ==
  IF op = "pause" THEN producer.paused ELSE ~producer.paused

\* The last two calls were pauseProducer('audio') then resumeProducer('audio')
\* and every request they sent was accepted.
PauseThenResumeAudio ==
  /\ Len(calls) = 2
  /\ calls[1].op = "pause" /\ calls[1].kind = "audio"
  /\ calls[2].op = "resume" /\ calls[2].kind = "audio"
  /\ \A i \in 1..2 : calls[i].res \in {"ok", "none"}

\* The last two calls were the same call (op) on the same kind.
TwoInARow(op) ==
  /\ Len(calls) = 2
  /\ calls[1].op = op /\ calls[2].op = op
  /\ calls[1].kind = calls[2].kind

\* C4 as stated: pause then resume of audio leaves isAudioEnabled() at its
\* value before the pause, whatever the producer was before.
C4_AsStated ==
  PauseThenResumeAudio => isAudioEnabled = isProducerEnabled(calls[1].before)

\* C4, amended: pause then resume of audio leaves isAudioEnabled() at its
\* value before the pause when the producer was absent or not paused; when
\* it was already paused, isAudioEnabled() is true afterwards.
C4_PauseResumeRestores ==
  PauseThenResumeAudio =>
    IF calls[1].before.present /\ calls[1].before.paused
    THEN isAudioEnabled
    ELSE isAudioEnabled = isProducerEnabled(calls[1].before)

\* An enabled audio producer was paused and resumed, both requests accepted,
\* and is enabled again.
C4_Witness ==
  /\ PauseThenResumeAudio
  /\ isProducerEnabled(calls[1].before)
  /\ calls[1].res = "ok" /\ calls[2].res = "ok"
  /\ ~isProducerEnabled(calls[1].after)
  /\ isAudioEnabled

\* C5 as stated: two pauseProducer (resumeProducer) calls in a row send one
\* request, none when the producer is absent, and the second call leaves the
\* producer as the first left it.
C5_AsStated ==
  \A op \in {"pause", "resume"} :
    TwoInARow(op) =>
      /\ calls[2].after = calls[1].after
      /\ Len(calls[1].sent) + Len(calls[2].sent) =
           IF calls[1].before.present THEN 1 ELSE 0

\* C5, amended: of two pauseProducer (resumeProducer) calls in a row the
\* second sends nothing and leaves the producer as the first left it; the
\* first sends exactly one request when the producer exists and is not
\* already paused (resumed), and nothing otherwise.
C5_SecondCallIsNoOp ==
  \A op \in {"pause", "resume"} :
    TwoInARow(op) =>
      /\ calls[2].sent = <<>>
      /\ calls[2].after = calls[1].after
      /\ calls[1].sent =
           IF calls[1].before.present /\ ~InTargetState(op, calls[1].before)
           THEN <<Request(ToggleMethod(op), calls[1].kind)>>
           ELSE <<>>
      /\ ~calls[1].before.present => calls[2].after = NoProducer

\* pauseProducer was called a second time while the request of the first
\* call, which paused an enabled producer, was still pending.
C5_Witness ==
  /\ TwoInARow("pause")
  /\ isProducerEnabled(calls[1].before)
  /\ calls[1].res = "pending"
  /\ calls[1].sent # <<>>

\* ------------------------------------------- properties: connectWithRetry

\* C6: a connectWithRetry call whose attempts all fail has made exactly 3
\* connect attempts, waited 1000 ms then 2000 ms and nothing after the third
\* failure, and has thrown one error; no call throws twice.
C6_ThreeAttemptsThenOneError ==
  /\ Len(retry.thrown) <= 1
  /\ retry.pc = "rejected" =>
       /\ retry.attempts = 3
       /\ retry.delays = <<1000, 2000>>
       /\ Len(retry.thrown) = 1

\* A call has been rejected after its third attempt timed out.
C6_Witness ==
  /\ retry.pc = "rejected"
  /\ retry.attempt = 3
  /\ retry.lastMsg = TimeoutMessage

\* C7: when connectWithRetry gives up, the error it throws and the published
\* error are 'Connection failed after 3 attempts: ' followed by the last
\* failure's message, and isConnected is false.
C7_AggregatedError ==
  last.op = "connectWithRetryRejected" =>
    /\ retry.thrown =
         <<"Connection failed after 3 attempts: " \o retry.lastMsg>>
    /\ stateSubject.error =
         "Connection failed after 3 attempts: " \o retry.lastMsg
    /\ ~stateSubject.isConnected

\* connectWithRetry has just given up on a device initialization failure.
C7_Witness ==
  /\ last.op = "connectWithRetryRejected"
  /\ retry.lastMsg = "Device initialization failed: ws down"
  /\ stateSubject.error # Null

\* C8: a call never makes more than 3 connect attempts; one that has
\* resolved threw nothing, waited only between its attempts, and makes no
\* further attempt or delay (its record changes only with the next call).
C8_StopsAtFirstSuccess ==
  /\ [](retry.attempts <= 3)
  /\ [](retry.pc = "resolved" =>
          /\ retry.thrown = <<>>
          /\ Len(retry.delays) = retry.attempts - 1)
  /\ [][retry.pc = "resolved" =>
          (retry' = retry \/ last'.op = "connectWithRetry")]_vars

\* A call resolved at its second attempt, after one delay of 1000 ms.
C8_Witness ==
  /\ retry.pc = "resolved"
  /\ retry.attempts = 2
  /\ retry.delays = <<1000>>

\* ------------------------------------- properties: consumers and producers

\* C11: every consumer in the consumer map is owned by a peer whose id is
\* the id of a participant in the participant list.
C11_ConsumersBelongToParticipants ==
  \A c \in DOMAIN getConsumers :
    getConsumers[c].peerId \in ParticipantIds(participantsSubject)

\* C12: once the request of closeProducer(kind) has settled, accepted or
\* rejected, the producer was closed and the reference of that kind is
\* cleared: isVideoEnabled/isAudioEnabled is false for it and a further
\* closeProducer(kind) sends nothing.
C12_CloseClearsReference ==
  /\ [](last.op = "closeSettled" =>
          /\ ~producerOf(last.kind).present
          /\ ~isProducerEnabled(producerOf(last.kind)))
  /\ [][(last.op = "closeSettled" /\ last'.op = "closeProducer"
            /\ last'.kind = last.kind) => last'.sent = <<>>]_vars

\* --------------------------------------------- disconnect and peer events

\* The steps of disconnect() in the order of its statements: the two
\* producers, the consumers (forEach close, then clear), the two transports,
\* the signaling peer, and the reset of the published snapshots.
TeardownStepsPeerFirst ==
  <<"peer", "reset", "videoProducer", "audioProducer", "consumers",
    "sendTransport", "recvTransport">>

TeardownSteps ==
  <<"videoProducer", "audioProducer", "consumers", "sendTransport",
    "recvTransport", "peer", "reset">>

StepIndex(step) ==
  CHOOSE i \in 1..Len(TeardownSteps) : TeardownSteps[i] = step

\* The close() calls of disconnect() that may be taken to throw.
FailPoints ==
  {"videoProducer", "audioProducer", "consumers", "sendTransport",
   "recvTransport"}

\* The guard of each step: the object it closes exists.
StepApplies(step) ==
  CASE step = "videoProducer" -> videoProducer.present
    [] step = "audioProducer" -> audioProducer.present
    [] step = "consumers" -> DOMAIN consumers # {}
    [] step = "sendTransport" -> sendTransport
    [] step = "recvTransport" -> recvTransport
    [] step = "peer" -> peer # "none"
    [] OTHER -> TRUE

\* What disconnect() publishes as its reset.
ResetUpdates ==
  [isConnected |-> FALSE, isProducing |-> FALSE, participants |-> <<>>,
   error |-> Null]

\* disconnect(), one synchronous function inside one try block.  failAt is
\* the step whose close() throws ("none": nothing throws): the steps before
\* it have run, the steps from it on are skipped and the catch logs.  A
\* close() that throws is taken not to have closed its object.  When a
\* consumer's close() throws, closedBefore are the consumers forEach had
\* closed before it (the model keeps no insertion order, so any proper
\* subset of the map), and clear() is not reached.  peer.close() emits
\* 'close', whose listener publishes isConnected false.
disconnect(failAt, closedBefore) ==
  LET ran(step) ==
        failAt = "none" \/ StepIndex(step) < StepIndex(failAt)
      closes(step) == ran(step) /\ StepApplies(step)
      afterPeer ==
        IF closes("peer")
        THEN updateState(stateSubject, [isConnected |-> FALSE])
        ELSE stateSubject
  IN /\ failAt \in FailPoints => StepApplies(failAt)
     /\ closedBefore \subseteq DOMAIN consumers
     /\ IF failAt = "consumers"
        THEN closedBefore # DOMAIN consumers
        ELSE closedBefore = {}
     /\ videoProducer' =
          IF closes("videoProducer")
          THEN [videoProducer EXCEPT !.closed = TRUE] ELSE videoProducer
     /\ audioProducer' =
          IF closes("audioProducer")
          THEN [audioProducer EXCEPT !.closed = TRUE] ELSE audioProducer
     /\ IF ran("consumers")
        THEN /\ closedConsumers' = closedConsumers \cup DOMAIN consumers
             /\ consumers' = EmptyMap
        ELSE /\ closedConsumers' = closedConsumers \cup closedBefore
             /\ consumers' = consumers
     /\ closedTransports' =
          closedTransports
            \cup (IF closes("sendTransport") THEN {"send"} ELSE {})
            \cup (IF closes("recvTransport") THEN {"recv"} ELSE {})
     /\ peer' = IF closes("peer") THEN "closed" ELSE peer
     /\ IF ran("reset")
        THEN /\ stateSubject' = updateState(afterPeer, ResetUpdates)
             /\ localStreamSubject' = Null
             /\ participantsSubject' = <<>>
             /\ currentPeerId' = Null
             /\ localPeerDisplayName' = Null
             /\ joinConfirmed' = FALSE
        ELSE /\ stateSubject' = afterPeer
             /\ UNCHANGED <<localStreamSubject, participantsSubject,
                            currentPeerId, localPeerDisplayName,
                            joinConfirmed>>
     /\ teardown' = SelectSeq(TeardownSteps, closes)
     /\ last' = Event("disconnect", IF failAt = "none" THEN Null ELSE failAt,
                      Null, Null, <<>>, FALSE)
     /\ UNCHANGED <<pendingConsume, pendingClose, producing, calls,
                    sendTransport, recvTransport, connectionRetries, retry,
                    loadedDevice, creating, componentVars>>

\* Variables the peer's connection events never touch.
PeerEventFrame ==
  UNCHANGED <<remoteVars, mediaVars, teardownVars, currentPeerId,
              localPeerDisplayName, joinConfirmed, connectionRetries, retry,
              recvTransport, componentVars>>

\* The 'disconnected' listener with a teardown of the consumers added.
peerDisconnectedDropsConsumers ==
  /\ peer = "open"
  /\ peer' = "disconnected"
  /\ stateSubject' = updateState(stateSubject, [isConnected |-> FALSE])
  /\ consumers' = EmptyMap
  /\ last' = Event("disconnected", Null, Null, Null, <<>>, FALSE)
  /\ UNCHANGED <<participantsSubject, closedConsumers, pendingConsume,
                 mediaVars, teardownVars, currentPeerId, localPeerDisplayName,
                 joinConfirmed, connectionRetries, retry, recvTransport,
                 componentVars>>

\* The peer's 'disconnected' event (the connection dropped and the peer is
\* trying to reconnect): the listener publishes isConnected false.
peerDisconnected ==
  /\ peer = "open"
  /\ peer' = "disconnected"
  /\ stateSubject' = updateState(stateSubject, [isConnected |-> FALSE])
  /\ last' = Event("disconnected", Null, Null, Null, <<>>, FALSE)
  /\ PeerEventFrame

\* The peer's 'open' event after a reconnection: the listener logs.
peerReconnected ==
  /\ peer = "disconnected"
  /\ peer' = "open"
  /\ last' = Event("reopen", Null, Null, Null, <<>>, FALSE)
  /\ UNCHANGED stateSubject
  /\ PeerEventFrame

\* The peer's 'close' event, not caused by a close() of the service (the
\* server or the network closed the connection for good): the listener
\* publishes isConnected false.
peerClose ==
  /\ peer \in {"open", "disconnected"}
  /\ peer' = "closed"
  /\ stateSubject' = updateState(stateSubject, [isConnected |-> FALSE])
  /\ last' = Event("close", Null, Null, Null, <<>>, FALSE)
  /\ PeerEventFrame

\* The notifications of the teardown scenarios: bob and two consumers of his.
TeardownNewConsumerInputs ==
  {<<"c1", "bob", "video">>, <<"c2", "bob", "audio">>}

\* disconnect() is called on the joined session, before startProducing or
\* after startProducing(true, true) has returned.
InitTeardown ==
  /\ InitProd
  /\ videoProducer.present = audioProducer.present

\* Notifications are delivered while the peer is open; promises already
\* pending settle whatever the peer's state.
NextTeardown ==
  \/ /\ peer = "open"
     /\ \/ \E in \in NewPeerInputs :
             handleNewPeer(in[1], in[2], "Chrome Browser")
        \/ \E in \in TeardownNewConsumerInputs :
             handleNewConsumer(in[1], in[2], in[3])
        \/ handleActiveSpeaker("bob", -50)
  \/ \E c \in ConsumerIds, ok \in BOOLEAN : consumeSettled(c, ok)
  \/ \E c \in ConsumerIds, ok \in BOOLEAN : resumeSettled(c, ok)
  \/ \E failAt \in FailPoints \cup {"none"},
        closedBefore \in SUBSET ConsumerIds :
       disconnect(failAt, closedBefore)

SpecTeardown == InitTeardown /\ [][NextTeardown]_vars

\* The peer's connection events on the same session, with one consumer.
NextPeerEvents ==
  \/ /\ peer = "open"
     /\ \/ \E in \in NewPeerInputs :
             handleNewPeer(in[1], in[2], "Chrome Browser")
        \/ \E in \in PeersNewConsumerInputs :
             handleNewConsumer(in[1], in[2], in[3])
        \/ handleActiveSpeaker("bob", -50)
  \/ \E ok \in BOOLEAN : consumeSettled("c1", ok)
  \/ \E ok \in BOOLEAN : resumeSettled("c1", ok)
  \/ peerDisconnected
  \/ peerReconnected
  \/ peerClose

SpecPeerEvents == InitTeardown /\ [][NextPeerEvents]_vars

\* ------------------------------------------------- properties: disconnect

\* The published state is in its reset form (the active speaker aside).
StateIsReset ==
  /\ ~stateSubject.isConnected
  /\ ~stateSubject.isProducing
  /\ stateSubject.participants = <<>>
  /\ stateSubject.error = Null

\* C13: after a disconnect() in which nothing threw, the published state is
\* {isConnected: false, isProducing: false, participants: [], error: null}
\* with no active speaker, the participant list is empty, the local stream
\* is null and the consumer map is empty.
C13_DisconnectResetsSnapshots ==
  (last.op = "disconnect" /\ last.id = Null) =>
    /\ StateIsReset
    /\ stateSubject.activeSpeaker = NoSpeaker
    /\ participantsSubject = <<>>
    /\ localStreamSubject = Null
    /\ getConsumers = EmptyMap

\* The place of a step in the order the claim gives: producers, consumers,
\* transports, peer, reset.
StepRank(step) ==
  CASE step \in {"videoProducer", "audioProducer"} -> 1
    [] step = "consumers" -> 2
    [] step \in {"sendTransport", "recvTransport"} -> 3
    [] step = "peer" -> 4
    [] OTHER -> 5

\* C14: the steps a disconnect() ran come in the order producers, consumers,
\* transports, signaling peer, reset of the published state; when the reset
\* has run, everything that existed has been closed before it.
C14_TeardownOrder ==
  last.op = "disconnect" =>
    /\ \A i, j \in 1..Len(teardown) :
         i < j => StepRank(teardown[i]) <= StepRank(teardown[j])
    /\ (teardown # <<>> /\ teardown[Len(teardown)] = "reset") =>
         /\ videoProducer.present => videoProducer.closed
         /\ audioProducer.present => audioProducer.closed
         /\ sendTransport => "send" \in closedTransports
         /\ recvTransport => "recv" \in closedTransports
         /\ peer \in {"none", "closed"}
         /\ getConsumers = EmptyMap

\* A disconnect() found both producers, a consumer, both transports and the
\* peer, and ran all seven steps.
C14_Witness ==
  /\ last.op = "disconnect"
  /\ Len(teardown) = 7
  /\ closedConsumers # {}
  /\ StateIsReset

\* C15: a disconnect() in which the close() of a producer, a consumer or a
\* transport threw has still closed the signaling peer and reset the
\* published state, the participant list and the local stream.
C15_BestEffortTeardown ==
  (last.op = "disconnect" /\ last.id \in FailPoints) =>
    /\ peer = "closed"
    /\ StateIsReset
    /\ participantsSubject = <<>>
    /\ localStreamSubject = Null

\* -------------------------------------------------------- createTransports

\* The error createTransports throws, whatever failed inside it.
transportFailedMessage(msg) == "Transport creation failed: " \o msg

\* createTransports rejecting: its catch wraps the error and rethrows;
\* whatever was assigned before the failure stays assigned.
creatingFailed ==
  /\ creating' = NotCreating
  /\ last' = Event("createTransportsFailed", Null, Null, Null, <<>>, TRUE)

\* createTransports up to its first await: it throws at once when the
\* device is not loaded, and otherwise requests the send transport.
createTransports ==
  /\ creating.pc = "idle"
  /\ IF loadedDevice = "loaded"
     THEN /\ creating' = [pc |-> "send"]
          /\ last' = Event("createTransports", Null, Null, Null,
                           <<Request("createWebRtcTransport", "send")>>, FALSE)
     ELSE creatingFailed
  /\ UNCHANGED <<stateSubject, remoteVars, mediaVars, connVars, loadedDevice,
                 closedTransports, teardown>>

\* The first createWebRtcTransport request settles: accepted, the send
\* transport is created and assigned and the receive transport is requested.
sendTransportSettled(ok) ==
  /\ creating.pc = "send"
  /\ IF ok
     THEN /\ sendTransport' = TRUE
          /\ closedTransports' = closedTransports \ {"send"}
          /\ creating' = [pc |-> "recv"]
          /\ last' = Event("sendTransport", Null, Null, Null,
                           <<Request("createWebRtcTransport", "recv")>>, FALSE)
     ELSE /\ creatingFailed
          /\ UNCHANGED <<sendTransport, closedTransports>>
  /\ UNCHANGED <<stateSubject, remoteVars, videoProducer, audioProducer,
                 pendingClose, producing, calls, localStreamSubject, connVars,
                 loadedDevice, teardown, componentVars>>

\* The second createWebRtcTransport request settles: accepted, the receive
\* transport is created and assigned and createTransports returns.
recvTransportSettled(ok) ==
  /\ creating.pc = "recv"
  /\ IF ok
     THEN /\ recvTransport' = TRUE
          /\ closedTransports' = closedTransports \ {"recv"}
          /\ creating' = NotCreating
          /\ last' = Event("createTransportsDone", Null, Null, Null, <<>>,
                           FALSE)
     ELSE /\ creatingFailed
          /\ UNCHANGED <<recvTransport, closedTransports>>
  /\ UNCHANGED <<stateSubject, remoteVars, mediaVars, currentPeerId,
                 localPeerDisplayName, joinConfirmed, peer, connectionRetries,
                 retry, loadedDevice, teardown, componentVars>>

\* createTransports is called on the service as constructed (no device) or
\* once connect() has resolved (device loaded, no transport yet).
InitTransports ==
  /\ participantsSubject = <<>>
  /\ localStreamSubject = Null
  /\ consumers = EmptyMap
  /\ closedConsumers = {}
  /\ pendingConsume = [c \in ConsumerIds |-> NoTask]
  /\ videoProducer = NoProducer
  /\ audioProducer = NoProducer
  /\ pendingClose = [k \in Kinds |-> 0]
  /\ producing = NotProducing
  /\ sendTransport = FALSE
  /\ recvTransport = FALSE
  /\ connectionRetries = 0
  /\ retry = NoRetry
  /\ calls = <<>>
  /\ creating = NotCreating
  /\ closedTransports = {}
  /\ teardown = <<>>
  /\ joining = FALSE
  /\ joinRoomPc = "idle"
  /\ last = NoEvent
  /\ \/ /\ stateSubject = InitialState
        /\ currentPeerId = Null
        /\ localPeerDisplayName = Null
        /\ joinConfirmed = FALSE
        /\ peer = "none"
        /\ loadedDevice = "none"
     \/ /\ stateSubject = [InitialState EXCEPT !.isConnected = TRUE]
        /\ currentPeerId = "alice"
        /\ localPeerDisplayName = "Alice"
        /\ joinConfirmed = TRUE
        /\ peer = "open"
        /\ loadedDevice = "loaded"

NextTransports ==
  \/ createTransports /\ UNCHANGED componentVars
  \/ \E ok \in BOOLEAN : sendTransportSettled(ok)
  \/ \E ok \in BOOLEAN : recvTransportSettled(ok)
  \/ /\ peer = "open"
     /\ \/ \E in \in NewPeerInputs :
             handleNewPeer(in[1], in[2], "Chrome Browser")
        \/ \E in \in PeersNewConsumerInputs :
             handleNewConsumer(in[1], in[2], in[3])
  \/ \E ok \in BOOLEAN : consumeSettled("c1", ok)
  \/ \E ok \in BOOLEAN : resumeSettled("c1", ok)
  \/ \E enableVideo, enableAudio \in BOOLEAN :
       startProducing(enableVideo, enableAudio) /\ UNCHANGED componentVars
  \/ \E ok \in BOOLEAN : userMediaSettled(ok)
  \/ \E ok \in BOOLEAN : produceSettled(ok)

SpecTransports == InitTransports /\ [][NextTransports]_vars

\* ------------------------------------ properties: transports and consumers

\* C16: a newConsumer{c, ...} that fails at consumer instantiation (no
\* receive transport, or recvTransport.consume() rejected) throws nothing,
\* leaves the consumer map, the participant list and the published state as
\* they were and frees its handler; afterwards, with the peer open, a
\* newPeer and a newConsumer for c can still be handled.
C16_FailedConsumeIsDiscarded ==
  /\ [][(last'.op = "newConsumerFailed"
           /\ pendingConsume[last'.id].pc \in {"none", "consume"}) =>
          /\ ~last'.threw
          /\ UNCHANGED <<consumers, participantsSubject, stateSubject>>
          /\ pendingConsume'[last'.id] = NoTask]_vars
  /\ []((last.op = "newConsumerFailed" /\ peer = "open") =>
          /\ ENABLED handleNewPeer("bob", "Bob", "Chrome Browser")
          /\ ENABLED handleNewConsumer(last.id, "bob", "audio"))

\* A newConsumer of bob's video has just failed for want of a receive
\* transport, bob being listed without video.
C16_Witness ==
  /\ last.op = "newConsumerFailed"
  /\ ~recvTransport
  /\ last.id \notin DOMAIN consumers
  /\ \E i \in 1..Len(participantsSubject) :
       /\ participantsSubject[i].id = last.peerId
       /\ ~participantsSubject[i].videoEnabled

\* C18: when createTransports has finished, resolved or rejected, the send
\* and the receive transport both exist or neither does.
C18_BothTransportsOrNone ==
  last.op \in {"createTransportsDone", "createTransportsFailed"} =>
    (sendTransport <=> recvTransport)

\* ------------------------------------- properties: failures and peer events

\* C17: a connect attempt that fails in capability negotiation (the
\* getRouterRtpCapabilities request or device.load()) is the call's last:
\* connectWithRetry rejects at once, with no delay and no further attempt.
C17_CapabilityFailureNotRetried ==
  [][(retry.pc \in {"caps", "load"} /\ retry'.pc \notin {"caps", "load", "join"})
       => /\ retry'.pc = "rejected"
          /\ retry'.attempts = retry.attempts
          /\ retry'.delays = retry.delays]_vars

\* C19: the peer's 'disconnected' event publishes isConnected false and
\* leaves everything else as it was: the other fields of the state, the
\* producers, consumers, transports, participant list and local stream.
C19_DisconnectedOnlyFlipsStatus ==
  [][last'.op = "disconnected" =>
       /\ stateSubject' = [stateSubject EXCEPT !.isConnected = FALSE]
       /\ UNCHANGED <<videoProducer, audioProducer, consumers, closedConsumers,
                      pendingConsume, sendTransport, recvTransport,
                      closedTransports, participantsSubject,
                      localStreamSubject, currentPeerId>>]_vars

\* The peer has just been disconnected while producing and consuming: the
\* producers and the consumer are still there, open, and bob is listed.
C19_Witness ==
  /\ last.op = "disconnected"
  /\ ~stateSubject.isConnected
  /\ stateSubject.isProducing
  /\ isVideoEnabled /\ ~videoProducer.closed
  /\ "c1" \in DOMAIN consumers /\ "c1" \notin closedConsumers
  /\ "bob" \in ParticipantIds(participantsSubject)
  /\ closedTransports = {}

\* C20: after the peer's 'close' event the session is torn down as after
\* disconnect(): producers and transports closed, consumer map and
\* participant list empty, local stream null, published state reset.
C20_CloseEventTearsDown ==
  last.op = "close" =>
    /\ videoProducer.present => videoProducer.closed
    /\ audioProducer.present => audioProducer.closed
    /\ getConsumers = EmptyMap
    /\ sendTransport => "send" \in closedTransports
    /\ recvTransport => "recv" \in closedTransports
    /\ participantsSubject = <<>>
    /\ localStreamSubject = Null
    /\ StateIsReset

\* ------------------------------------------------ local peer id (echo check)

\* What may stand before and after a display name inside a peer id.
Affixes == {""} \cup {"_" \o stamp : stamp \in Stamps}

\* s.includes(sub), for the peer ids and display names of this model: a
\* display name can only occur in an id at its start, before a stamp.
Includes(s, sub) ==
  \E before, after \in Affixes : s = before \o sub \o after

isOwnConsumer(consumerPeerId) ==
  IF currentPeerId = Null \/ consumerPeerId = Null
  THEN FALSE
  ELSE LET directMatch == currentPeerId = consumerPeerId
           nameMatch == /\ localPeerDisplayName # Null
                        /\ Includes(consumerPeerId, localPeerDisplayName)
       IN directMatch \/ nameMatch

\* The peer ids generateUniquePeerId can return.
GeneratedPeerIds ==
  {generateUniquePeerId(n, stamp) : n \in JoinNames, stamp \in Stamps}

C22_FailedPeerIsClosed ==
  (/\ retry.pc = "rejected"
   /\ retry.lastMsg \in {TimeoutMessage}
                          \cup {peerFailedMessage(msg) : msg \in PeerErrors})
    => peer = "closed"

\* ---------------------------------------- properties: producers, continued

\* C23: the settling of a pauseProducer / resumeProducer request, accepted
\* or rejected, throws nothing and leaves the producers as they are; so
\* when the request of the latest call was rejected the producer still is
\* as that call left it: paused after a pause, resumed after a resume
\* (a producer already closed by closeProducer is left aside).
C23_RejectedToggleStays ==
  /\ [][last'.op = "toggleSettled" =>
          /\ ~last'.threw
          /\ UNCHANGED <<videoProducer, audioProducer>>]_vars
  /\ []((/\ calls # <<>>
          /\ calls[Len(calls)].res = "rejected"
          /\ ~calls[Len(calls)].before.closed) =>
          LET call == calls[Len(calls)]
          IN /\ producerOf(call.kind).present
             /\ producerOf(call.kind).paused = (call.op = "pause")
             /\ isProducerEnabled(producerOf(call.kind)) = (call.op = "resume"))

\* The request of a pauseProducer('audio') call on an enabled producer was
\* rejected, and isAudioEnabled() is false.
C23_Witness ==
  /\ calls # <<>>
  /\ calls[Len(calls)].res = "rejected"
  /\ calls[Len(calls)].op = "pause"
  /\ calls[Len(calls)].kind = "audio"
  /\ isProducerEnabled(calls[Len(calls)].before)
  /\ ~isAudioEnabled

\* ------------------------------------ properties: notifications, continued

\* C24: a notification with an unknown method name changes nothing (the
\* participants, the consumers, the published state with its active speaker,
\* connection status and error, the producers, the peer), sends nothing and
\* throws nothing.
C24_UnknownNotificationIgnored ==
  [][last'.op = "unknown" =>
       /\ ~last'.threw
       /\ last'.sent = <<>>
       /\ UNCHANGED <<participantsSubject, consumers, closedConsumers,
                      pendingConsume, stateSubject, videoProducer,
                      audioProducer, peer>>]_vars

\* An unknown notification was handled with a participant listed, a
\* consumer in the map and an active speaker published.
C24_Witness ==
  /\ last.op = "unknown"
  /\ participantsSubject # <<>>
  /\ DOMAIN consumers # {}
  /\ stateSubject.activeSpeaker # NoSpeaker

\* C27: consumerPaused(c) / consumerResumed(c) set the paused flag of
\* consumer c to true / false when c is in the map and change no consumer
\* otherwise; the keys of the map, the participant list and the published
\* state stay as they were and no request is sent.
C27_ConsumerPausedResumed ==
  [][last'.op \in {"consumerPaused", "consumerResumed"} =>
       /\ last'.sent = <<>>
       /\ ~last'.threw
       /\ DOMAIN consumers' = DOMAIN consumers
       /\ \A c \in DOMAIN consumers :
            consumers'[c] =
              IF c = last'.id
              THEN [consumers[c] EXCEPT
                      !.paused = (last'.op = "consumerPaused")]
              ELSE consumers[c]
       /\ UNCHANGED <<participantsSubject, stateSubject, closedConsumers>>]_vars

\* consumerPaused(c1) has just paused consumer c1 of the map.
C27_Witness ==
  /\ last.op = "consumerPaused"
  /\ last.id \in DOMAIN consumers
  /\ consumers[last.id].paused
  /\ consumers[last.id].peerId = "bob"

\* C28: an activeSpeaker notification publishes exactly its payload as the
\* active speaker, replacing the one before, and leaves isConnected,
\* isProducing, participants and error of the published state unchanged.
C28_ActiveSpeakerOverwritten ==
  /\ [](Len(stateSubject.activeSpeaker) <= 1)
  /\ [][last'.op = "activeSpeaker" =>
          /\ stateSubject'.activeSpeaker =
               <<[peerId |-> last'.id, volume |-> -50]>>
          /\ stateSubject' =
               [stateSubject EXCEPT
                  !.activeSpeaker = stateSubject'.activeSpeaker]]_vars

\* bob has just been published as active speaker, alice having left and
\* bob being listed.
C28_Witness ==
  /\ last.op = "activeSpeaker"
  /\ stateSubject.activeSpeaker = <<[peerId |-> "bob", volume |-> -50]>>
  /\ ParticipantIds(participantsSubject) = {"bob"}
  /\ stateSubject.isConnected

HasLocal(list) == \E i \in 1..Len(list) : list[i].isLocal

\* C25 as stated: whenever the local participant is in the list, a
\* startProducing call has completed (isProducing has been published).
C25_AsStated ==
  HasLocal(participantsSubject) => stateSubject.isProducing

\* C25, amended: the local participant enters the list only at the end of a
\* successful startProducing, at the end of a successfully handled
\* newConsumer or on a consumerClosed; there is at most one, with id
\* 'local'; and after a successful startProducing it is listed with flags
\* equal to isAudioEnabled() / isVideoEnabled().
C25_LocalParticipantCreation ==
  /\ [][(~HasLocal(participantsSubject) /\ HasLocal(participantsSubject')) =>
          last'.op \in {"startProducingDone", "newConsumerDone",
                        "consumerClosed"}]_vars
  /\ [](\A i, j \in 1..Len(participantsSubject) :
          participantsSubject[i].isLocal =>
            /\ participantsSubject[i].id = "local"
            /\ participantsSubject[j].isLocal => i = j)
  /\ [](last.op = "startProducingDone" =>
          \E i \in 1..Len(participantsSubject) :
            /\ participantsSubject[i].isLocal
            /\ participantsSubject[i].audioEnabled = isAudioEnabled
            /\ participantsSubject[i].videoEnabled = isVideoEnabled)

\* A handled newConsumer has put the local participant into the list, with
\* both flags off, before any startProducing completed.
C25_Witness ==
  /\ last.op = "newConsumerDone"
  /\ ~stateSubject.isProducing
  /\ \E i \in 1..Len(participantsSubject) :
       /\ participantsSubject[i].isLocal
       /\ ~participantsSubject[i].audioEnabled
       /\ ~participantsSubject[i].videoEnabled

\* C26: after a producer's track-ended event the service holds no producer
\* of that kind: isVideoEnabled() / isAudioEnabled() is false for it and a
\* following pause, resume or close of that kind sends no request.
C26_EndedProducerIsDropped ==
  /\ [](last.op = "trackended" =>
          /\ ~producerOf(last.kind).present
          /\ ~isProducerEnabled(producerOf(last.kind)))
  /\ [][(last.op = "trackended" /\ last'.kind = last.kind
            /\ last'.op \in {"pauseProducer", "resumeProducer",
                              "closeProducer"})
          => last'.sent = <<>>]_vars

\* -------------------------------------------- properties: connect, continued

\* The steps of a connect attempt, in order: the peer's 'open' is awaited,
\* then the router capabilities, the device load and the join.
AttemptSteps == <<"waitOpen", "caps", "load", "join", "resolved">>

\* C30: isConnected turns true only when the join request of an attempt is
\* accepted; an attempt reaches its join only through the peer's 'open',
\* the capabilities and the device load, each step entered from the one
\* before; and an attempt that fails at any step leaves isConnected as it
\* was, publishes a non-null error and rejects (to a retry or to the caller).
C30_ConnectedOnlyAfterJoin ==
  /\ [][(~stateSubject.isConnected /\ stateSubject'.isConnected) =>
          /\ retry.pc = "join"
          /\ retry'.pc = "resolved"
          /\ stateSubject'.error = Null]_vars
  /\ [][\A i \in 2..Len(AttemptSteps) :
          (retry'.pc = AttemptSteps[i] /\ retry.pc # AttemptSteps[i]) =>
            retry.pc = AttemptSteps[i - 1]]_vars
  /\ [][(retry.pc \in {"waitOpen", "caps", "load", "join"}
            /\ retry'.pc \in {"delay", "rejected"}) =>
          /\ stateSubject'.isConnected = stateSubject.isConnected
          /\ stateSubject'.error # Null
          /\ last'.op \in {"attemptFailed", "connectWithRetryRejected"}]_vars

\* An attempt failed at its join request: the error is published and
\* isConnected is still false.
C30_Witness ==
  /\ last.op = "attemptFailed"
  /\ retry.lastMsg = "ws down"
  /\ stateSubject.error = "ws down"
  /\ ~stateSubject.isConnected

\* ------------------------------------------- properties: waitForConnection

\* The events that settle a wait for the peer's 'open'.
WaitSettlers == {"open", "attemptFailed", "connectWithRetryRejected"}

\* C31: the wait of an attempt is settled once, by 'open', 'failed' or the
\* timer, whichever is first: the attempt leaves the wait only by one of
\* them, a wait starts only with a new attempt, an 'open' after the
\* rejection leaves the attempt where it is (no capability request, the
\* device, the published state and the retry counter untouched), and a
\* 'disconnected' during the wait leaves the attempt waiting.
C31_WaitSettledOnce ==
  [][/\ (retry.pc = "waitOpen" /\ retry'.pc # "waitOpen")
          => last'.op \in WaitSettlers
     /\ (retry.pc # "waitOpen" /\ retry'.pc = "waitOpen")
          => /\ last'.op \in {"connectWithRetry", "retry"}
             /\ retry'.attempt = IF last'.op = "retry"
                                 THEN retry.attempt + 1 ELSE 1
     /\ (last'.op = "lateOpen" /\ last # last')
          => /\ retry' = retry
             /\ last'.sent = <<>>
             /\ loadedDevice' = loadedDevice
             /\ stateSubject' = stateSubject
             /\ connectionRetries' = connectionRetries
     /\ (retry.pc = "waitOpen" /\ last'.op = "disconnected" /\ last # last')
          => retry' = retry]_vars

\* An 'open' arrived during the backoff delay after the timer had rejected
\* the wait, and the attempt did not go on.
C31_Witness ==
  /\ last.op = "lateOpen"
  /\ peer = "open"
  /\ retry.pc = "delay"
  /\ retry.lastMsg = TimeoutMessage
  /\ loadedDevice = "none"

\* ------------------------------------------ properties: consumer lifecycle

\* C32: when the resumeConsumer request of a newConsumer handling is
\* rejected, the consumer is not left in the consumer map and the
\* participant list is as it was.
C32_RejectedResumeNotApplied ==
  [][\A c \in ConsumerIds :
       (/\ pendingConsume[c].pc = "resume"
        /\ pendingConsume'[c].pc = "none"
        /\ last'.op = "newConsumerFailed"
        /\ last'.id = c)
         => /\ c \notin DOMAIN consumers'
            /\ participantsSubject' = participantsSubject]_vars

\* C33: isOwnConsumer(p) is true exactly when p is the current local peer id,
\* and false when either id is missing; containing the local display name
\* does not make a different peer's id the own one.
C33_OwnConsumerIsIdEquality ==
  \A p \in PeerIds \cup GeneratedPeerIds \cup {Null} :
    isOwnConsumer(p) <=> (currentPeerId # Null /\ p # Null /\ p = currentPeerId)

\* ------------------------------------------------- component: joinRoom

\* What startProducing reports when it settles.
MediaSettled == {"startProducingDone", "startProducingFailed"}

\* The service method joinRoom is awaiting has just settled with outcome op:
\* the continuation of joinRoom runs next, before any other event.
Awaited(method, ops) == joinRoomPc = method /\ last.op \in ops

\* joinRoom() from its start to its first await, both form fields filled in:
\* joining is set and connectWithRetry is called.  No other joinRoom is
\* running.
joinRoom(displayName, stamp) ==
  /\ joinRoomPc \in {"idle", "done"}
  /\ joining' = TRUE
  /\ joinRoomPc' = "connectWithRetry"
  /\ connectWithRetry(displayName, stamp)

\* connectWithRetry has resolved: joinRoom calls createTransports.
joinRoomConnected ==
  /\ Awaited("connectWithRetry", {"connectWithRetryResolved"})
  /\ joinRoomPc' = "createTransports"
  /\ createTransports
  /\ UNCHANGED joining

\* createTransports has resolved: joinRoom calls startMedia, which calls
\* startProducing(true, true).
joinRoomTransportsCreated ==
  /\ Awaited("createTransports", {"createTransportsDone"})
  /\ joinRoomPc' = "startMedia"
  /\ startProducing(TRUE, TRUE)
  /\ UNCHANGED joining

\* A joinRoom whose catch ends without the finally block.
joinRoomFailedKeepsJoining ==
  /\ \/ Awaited("connectWithRetry", {"connectWithRetryRejected"})
     \/ Awaited("createTransports", {"createTransportsFailed"})
  /\ joinRoomPc' = "done"
  /\ last' = Event("joinRoomFailed", Null, Null, Null, <<>>, FALSE)
  /\ UNCHANGED <<joining, stateSubject, remoteVars, mediaVars, connVars,
                 teardownVars>>

\* connectWithRetry or createTransports has rejected: joinRoom's catch shows
\* the alert and its finally clears joining.
joinRoomFailed ==
  /\ \/ Awaited("connectWithRetry", {"connectWithRetryRejected"})
     \/ Awaited("createTransports", {"createTransportsFailed"})
  /\ joining' = FALSE
  /\ joinRoomPc' = "done"
  /\ last' = Event("joinRoomFailed", Null, Null, Null, <<>>, FALSE)
  /\ UNCHANGED <<stateSubject, remoteVars, mediaVars, connVars, teardownVars>>

\* startProducing has settled: startMedia returns (its catch keeps a
\* rejection to itself) and joinRoom's finally clears joining.
joinRoomMediaSettled ==
  /\ Awaited("startMedia", MediaSettled)
  /\ joining' = FALSE
  /\ joinRoomPc' = "done"
  /\ last' = Event(IF last.op = "startProducingDone"
                   THEN "joinRoomDone" ELSE "startMediaFailed",
                   Null, Null, Null, <<>>, FALSE)
  /\ UNCHANGED <<stateSubject, remoteVars, mediaVars, connVars, teardownVars>>

\* joinRoom on the component as constructed, and again once it has ended.
\* While a continuation of joinRoom is due none of the service's steps is
\* enabled: the method that settled is no longer at an await.
NextJoin ==
  \/ \E n \in JoinNames, stamp \in Stamps : joinRoom(n, stamp)
  \/ joinRoomConnected
  \/ joinRoomTransportsCreated
  \/ joinRoomFailed
  \/ joinRoomMediaSettled
  \/ peerOpened
  \/ waitTimedOut
  \/ \E msg \in PeerErrors : peerFailed(msg)
  \/ \E ok \in BOOLEAN, msg \in PeerErrors : capabilitiesSettled(ok, msg)
  \/ \E ok \in BOOLEAN, msg \in PeerErrors : deviceLoadSettled(ok, msg)
  \/ \E ok \in BOOLEAN, id \in JoinResponsePeerIds, msg \in PeerErrors :
       joinSettled(ok, id, msg)
  \/ \E stamp \in Stamps : delayElapsed(stamp)
  \/ \E ok \in BOOLEAN : sendTransportSettled(ok)
  \/ \E ok \in BOOLEAN : recvTransportSettled(ok)
  \/ \E ok \in BOOLEAN : userMediaSettled(ok)
  \/ \E ok \in BOOLEAN : produceSettled(ok)

SpecJoin == InitRetry /\ [][NextJoin]_vars

\* C34: in joinRoom createTransports is started only when connectWithRetry
\* has just resolved and startProducing only when createTransports has just
\* resolved; when connectWithRetry or createTransports rejects, joinRoom
\* ends in its next step without starting anything; joining is set exactly
\* while joinRoom runs, so it is false once joinRoom has ended, however.
C34_JoinRoomOrder ==
  /\ [][/\ (creating.pc = "idle" /\ creating'.pc # "idle")
             => /\ last.op = "connectWithRetryResolved"
                /\ retry.pc = "resolved"
        /\ last'.op \in {"createTransports", "startProducing"}
             => last.op = IF last'.op = "createTransports"
                          THEN "connectWithRetryResolved"
                          ELSE "createTransportsDone"
        /\ (producing.pc = "idle" /\ producing'.pc # "idle")
             => /\ last.op = "createTransportsDone"
                /\ sendTransport /\ recvTransport
        /\ last.op \in {"connectWithRetryRejected", "createTransportsFailed"}
             => /\ joinRoomPc' = "done"
                /\ ~joining'
                /\ UNCHANGED <<creating, producing, retry, sendTransport,
                               recvTransport, videoProducer, audioProducer>>
        /\ (joinRoomPc # "done" /\ joinRoomPc' = "done")
             => last.op \in {"connectWithRetryRejected",
                             "createTransportsFailed"} \cup MediaSettled]_vars
  /\ [](joining <=> joinRoomPc \notin {"idle", "done"})
  /\ []((creating.pc # "idle" \/ producing.pc # "idle")
          => retry.pc = "resolved")

\* joinRoom has ended because the receive transport could not be created:
\* the connection and the send transport are there, nothing was produced and
\* joining is false again.
C34_Witness ==
  /\ last.op = "joinRoomFailed"
  /\ joinRoomPc = "done"
  /\ ~joining
  /\ retry.pc = "resolved"
  /\ sendTransport /\ ~recvTransport
  /\ ~videoProducer.present /\ ~audioProducer.present
  /\ localStreamSubject = Null

\* C35: a consumer whose track ends while it is in the consumer map is
\* taken out of the map.
C35_EndedConsumerIsRemoved ==
  last.op = "consumerTrackEnded" => last.id \notin DOMAIN getConsumers

\* ------------------------------------- properties: local participant flags

\* C36: whenever the local participant is in the participant list, its
\* audioEnabled is isAudioEnabled() and its videoEnabled is
\* isVideoEnabled().
C36_LocalFlagsFollowProducers ==
  \A i \in 1..Len(participantsSubject) :
    participantsSubject[i].isLocal =>
      /\ participantsSubject[i].audioEnabled = isAudioEnabled
      /\ participantsSubject[i].videoEnabled = isVideoEnabled

\* ------------------------------------ properties: overlapping notifications

\* C37: when a consumerClosed(c) was received while the newConsumer(c)
\* before it was still being handled, c is not in the consumer map once
\* that handling has finished.
C37_ClosedDuringNewConsumer ==
  [][\A c \in ConsumerIds :
       (/\ pendingConsume[c].closedMeanwhile
        /\ pendingConsume'[c].pc = "none")
         => c \notin DOMAIN consumers']_vars

\* --------------------------------------------- properties: after a leave

\* The last disconnect() ran to its end (none of its close() calls threw)
\* and nothing has connected since.
Disconnected ==
  teardown # <<>> /\ teardown[Len(teardown)] = "reset" /\ peer = "closed"

\* C38: from the return of disconnect() on, the consumer map and the
\* participant list are empty, also once a newConsumer handling that was
\* suspended at the time of the disconnect has finished.
C38_StaysEmptyAfterDisconnect ==
  Disconnected => (getConsumers = EmptyMap /\ participantsSubject = <<>>)

\* ------------------------------------ properties: remote participant flags

\* The life of one consumer of bob's video, with bob joining and leaving.
NextFlags ==
  \/ \E in \in NewPeerInputs : handleNewPeer(in[1], in[2], "Chrome Browser")
  \/ handlePeerClosed("bob")
  \/ \E in \in PeersNewConsumerInputs : handleNewConsumer(in[1], in[2], in[3])
  \/ \E ok \in BOOLEAN : consumeSettled("c1", ok)
  \/ \E ok \in BOOLEAN : resumeSettled("c1", ok)
  \/ handleConsumerClosed("c1")
  \/ handleConsumerPaused("c1")
  \/ handleConsumerResumed("c1")
  \/ consumerTrackEnded("c1")

SpecFlags == Init /\ [][NextFlags]_vars

\* The entry of remote participant p in list (p is listed).
RemoteEntry(list, p) == list[findIndex(list, p)]

IsRemote(list, p) ==
  p \in ParticipantIds(list) /\ ~RemoteEntry(list, p).isLocal

\* C39: while a remote participant stays in the list, a media flag of it
\* changes only from false to true, in the step that ends a successfully
\* handled newConsumer of that peer and kind; consumerClosed,
\* consumerPaused, consumerResumed and the end of a consumer's track leave
\* the flags of every listed remote participant as they are.
C39_RemoteFlagsOnlyRise ==
  [][\A p \in PeerIds, k \in Kinds :
       (IsRemote(participantsSubject, p) /\ IsRemote(participantsSubject', p))
         => LET before == EnabledFlag(RemoteEntry(participantsSubject, p), k)
                after == EnabledFlag(RemoteEntry(participantsSubject', p), k)
            IN /\ after # before
                    => /\ ~before /\ after
                       /\ last'.op = "newConsumerDone"
                       /\ last'.peerId = p /\ last'.kind = k
               /\ last'.op \in {"consumerClosed", "consumerPaused",
                                "consumerResumed", "consumerTrackEnded"}
                    => after = before]_vars

\* The track of bob's video consumer has ended and the consumer is out of
\* the map; bob is still listed with videoEnabled set.
C39_Witness ==
  /\ last.op = "consumerTrackEnded"
  /\ last.id \notin DOMAIN consumers
  /\ last.peerId = "bob"
  /\ IsRemote(participantsSubject, "bob")
  /\ RemoteEntry(participantsSubject, "bob").videoEnabled

\* C40: once disconnect() has returned, isVideoEnabled() and
\* isAudioEnabled() are both false.
C40_NoProducerOutlivesLeave ==
  Disconnected => (~isVideoEnabled /\ ~isAudioEnabled)

====
